---- MODULE Spec2Model ----
(***************************************************************************)
(* The gateway's PluginServer (src/unnamed/part_000, lines 252-453): the   *)
(* plugin registry, the dispatch of inbound IPC envelopes (onMsg), the     *)
(* registration handshake with its two asynchronous preference lookups,    *)
(* loadPlugin, registerPlugin and unregisterPlugin.  The Plugin class      *)
(* (./plugin) is not among the sources; its constructor, start() and       *)
(* onMsg() follow the design document.                                     *)
(***************************************************************************)
EXTENDS Integers, Sequences, FiniteSets, TLC

VARIABLES
    plugins,    \* PluginServer.plugins: Map<string, Plugin>, key -> object reference
    heap,       \* the live Plugin objects, by reference
    ninst,      \* number of Plugin objects constructed so far (the next reference)
    pending,    \* register handshakes whose promise chain has not yet sent, in arrival order
    last,       \* the most recent step: which operation, on which plugin id
    closed,     \* the connections that have closed
    ipcOpen,    \* PluginServer.ipcSocket: the shared transport is open
    queue,      \* GatewayModel.queue: the promise the next job is chained on
    chain,      \* the promises made by addQueue, each with its job, in submission order
    gateway,    \* GatewayModel: things, thingModels, directories; the progress of its jobs
    store,      \* Directories: its map, its load promise, the database, the calls in flight
    screen,     \* ThingsScreen: the rendered things and the lookups not yet settled
    area        \* a rule area: its RulePartBlocks, its two drop areas, the drag in progress

vars == <<plugins, heap, ninst, pending, last, closed, ipcOpen, queue, chain, gateway, store,
          screen, area>>

----------------------------------------------------------------------------
(* Bounds of the model *)

\* Plugin objects constructed in one run
MaxInst == 2
\* handshakes in flight at the same time
MaxPending == 2
\* jobs passed to GatewayModel.addQueue in one run
MaxJobs == 3
\* calls of Directories in flight at the same time
MaxFlight == 2
\* calls of ThingsScreen.refreshThings in one run
MaxRefresh == 3
\* RulePartBlocks made in one rule area
MaxBlocks == 3

----------------------------------------------------------------------------
(* Values *)

\* JavaScript's undefined
UNDEF == "<undefined>"
\* an envelope without a data record (msg.data === undefined)
NoData == [absent |-> TRUE]
\* no Plugin object
NoPlugin == 0

PluginIds == {"a", "b"}
\* values of data.pluginId that JavaScript treats as false
FalsyIds == {"", UNDEF}
IdValues == PluginIds \cup FalsyIds
Conns == {"c1", "c2"}
AdapterIds == {"x1"}
PropValues == {"v1"}

PLUGIN_REGISTER_REQUEST == "PLUGIN_REGISTER_REQUEST"
PLUGIN_REGISTER_RESPONSE == "PLUGIN_REGISTER_RESPONSE"
ADAPTER_ADDED == "ADAPTER_ADDED"
NOTIFIER_ADDED == "NOTIFIER_ADDED"
API_HANDLER_ADDED == "API_HANDLER_ADDED"
PROPERTY_CHANGED == "PROPERTY_CHANGED"
PLUGIN_UNLOADED == "PLUGIN_UNLOADED"

DefaultLanguage == "en-US"
DefaultTemperature == "degree celsius"
\* what the settings store can hold for the two keys
LanguageSettings == {"fr"}
TemperatureSettings == {"degree fahrenheit"}
\* a settled lookup: rejected, or resolved with a value (possibly none)
Rejected == "<rejected>"
EmptyResults == {UNDEF, ""}

PkgVersion == "pkg.version"
UserProfileDirs == {"addonsDir", "baseDir", "configDir", "dataDir", "mediaDir", "logDir",
                    "gatewayDir"}

\* JavaScript truthiness of a string-or-undefined value
Truthy(v) == v # UNDEF /\ v # ""

----------------------------------------------------------------------------
(* Envelopes *)

Data(p, a, v) == [pluginId |-> p, adapterId |-> a, value |-> v]

RegisterRequests ==
    {[messageType |-> PLUGIN_REGISTER_REQUEST, data |-> d] :
        d \in {NoData} \cup {Data(p, UNDEF, UNDEF) : p \in IdValues}}

OtherEnvelopes ==
    {[messageType |-> ADAPTER_ADDED, data |-> d] :
        d \in {NoData} \cup {Data(p, a, UNDEF) : p \in IdValues, a \in AdapterIds}}
    \cup
    {[messageType |-> PROPERTY_CHANGED, data |-> d] :
        d \in {NoData} \cup {Data(p, a, v) : p \in IdValues, a \in AdapterIds, v \in PropValues}}
    \cup
    {[messageType |-> PLUGIN_UNLOADED, data |-> d] :
        d \in {NoData} \cup {Data(p, UNDEF, UNDEF) : p \in IdValues}}

\* the announcements of the two other kinds of capability; the capability id
\* travels in the field the adapter announcement uses
CapabilityEnvelopes ==
    {[messageType |-> t, data |-> Data(p, a, UNDEF)] :
        t \in {NOTIFIER_ADDED, API_HANDLER_ADDED}, p \in PluginIds, a \in AdapterIds}

Envelopes == RegisterRequests \cup OtherEnvelopes \cup CapabilityEnvelopes

----------------------------------------------------------------------------
(* Map<string, Plugin> *)

MapHas(m, k) == k \in DOMAIN m
MapGet(m, k) == IF k \in DOMAIN m THEN m[k] ELSE NoPlugin
MapSet(m, k, v) == [x \in DOMAIN m \cup {k} |-> IF x = k THEN v ELSE m[x]]
MapDelete(m, k) == [x \in DOMAIN m \ {k} |-> m[x]]
EmptyMap == [x \in {} |-> NoPlugin]

\* the keys of a Map in iteration order
RECURSIVE SetToSeq(_)
SetToSeq(S) ==
    IF S = {} THEN <<>>
    ELSE LET x == CHOOSE y \in S : TRUE IN <<x>> \o SetToSeq(S \ {x})

----------------------------------------------------------------------------
(* Worlds: the state an operation starts in and ends in, with what it did *)

\* the state of the server, and the effects of the operation that led to it
Effects(reg, hp, n, pend) ==
    [plugins   |-> reg,
     heap      |-> hp,
     ninst     |-> n,
     pending   |-> pend,
     ipcOpen   |-> TRUE,        \* the shared transport is open
     plugin    |-> NoPlugin,    \* the Plugin returned by registerPlugin
     raised    |-> FALSE,       \* an error left the operation
     delivered |-> <<>>,        \* Plugin objects whose onMsg was called, in order
     mgr       |-> <<>>,        \* calls made on the Add-on Manager, in order
     released  |-> <<>>,        \* proxies a Plugin released, in order
     calls     |-> <<>>,        \* releases and unregisterPlugin calls, in the order made
     sent      |-> <<>>,        \* (connection, text) pairs passed to ws.send, in order
     starts    |-> <<>>]        \* Plugin objects whose start() was called, in order

\* the current state, nothing done yet
World == [Effects(plugins, heap, ninst, pending) EXCEPT !.ipcOpen = ipcOpen]

\* the state w, as the start of a further operation
After(w) == [Effects(w.plugins, w.heap, w.ninst, w.pending) EXCEPT !.ipcOpen = w.ipcOpen]

----------------------------------------------------------------------------
(* The Plugin class (./plugin, not among the sources) *)

\* new Plugin(pluginId, pluginServer)
NewPlugin(pluginId) ==
    [pluginId |-> pluginId,
     ws       |-> UNDEF,         \* channel handle, undefined until a register request binds it
     exec     |-> UNDEF,         \* launch descriptor, set by loadPlugin only
     execPath |-> UNDEF,
     process  |-> "none",        \* "none" | "running" | "failed"
     adapters |-> EmptyMap,      \* owned proxies: capability id -> mirror of the remote state
     notifiers |-> {},           \* owned notifier proxies, by capability id
     apiHandlers |-> {}]         \* owned API-handler proxies, by capability id

NoHeap == [i \in {} |-> NewPlugin(UNDEF)]

\* a Capability Proxy: its kind, its capability id and its owning plugin id
Proxy(kind, id, pluginId) == [kind |-> kind, id |-> id, plugin |-> pluginId]

\* addAdapter without the call on the manager
addAdapter_Dropped(w, adapter) == w

\* PluginServer.addAdapter: tells the add-on manager about the new proxy
addAdapter(w, adapter) ==
    [w EXCEPT !.mgr = Append(@, [fn |-> "addAdapter", proxy |-> adapter])]

\* addNotifier calling the manager's addAdapter
addNotifier_AsAdapter(w, notifier) ==
    [w EXCEPT !.mgr = Append(@, [fn |-> "addAdapter", proxy |-> notifier])]

\* PluginServer.addNotifier
addNotifier(w, notifier) ==
    [w EXCEPT !.mgr = Append(@, [fn |-> "addNotifier", proxy |-> notifier])]

\* PluginServer.addAPIHandler
addAPIHandler(w, handler) ==
    [w EXCEPT !.mgr = Append(@, [fn |-> "addAPIHandler", proxy |-> handler])]

\* the record of a call of unregisterPlugin
UnregisterCall(pluginId) == [fn |-> "unregisterPlugin", id |-> pluginId]

\* unregisterPlugin telling the add-on manager that the plugin is gone
unregisterPlugin_Notifies(w, pluginId) ==
    IF MapHas(w.plugins, pluginId)
    THEN [w EXCEPT !.plugins = MapDelete(@, pluginId),
                   !.heap = [i \in DOMAIN @ \ {w.plugins[pluginId]} |-> @[i]],
                   !.calls = Append(@, UnregisterCall(pluginId)),
                   !.mgr = Append(@, [fn |-> "pluginRemoved", proxy |-> pluginId])]
    ELSE [w EXCEPT !.calls = Append(@, UnregisterCall(pluginId))]

\* this.plugins.clear() in place of this.plugins.delete(pluginId)
unregisterPlugin_Clear(w, pluginId) ==
    [w EXCEPT !.plugins = EmptyMap,
              !.heap = [i \in {} |-> @[i]],
              !.calls = Append(@, UnregisterCall(pluginId))]

\* unregisterPlugin wiping the Plugin in place of deleting its entry
unregisterPlugin_Resets(w, pluginId) ==
    IF MapHas(w.plugins, pluginId)
    THEN [w EXCEPT !.heap[w.plugins[pluginId]] = NewPlugin(pluginId),
                   !.calls = Append(@, UnregisterCall(pluginId))]
    ELSE [w EXCEPT !.calls = Append(@, UnregisterCall(pluginId))]

\* unregisterPlugin without the delete
unregisterPlugin_KeepsEntry(w, pluginId) ==
    [w EXCEPT !.calls = Append(@, UnregisterCall(pluginId))]

\* PluginServer.unregisterPlugin: this.plugins.delete(pluginId)
unregisterPlugin(w, pluginId) ==
    IF MapHas(w.plugins, pluginId)
    THEN [w EXCEPT !.plugins = MapDelete(@, pluginId),
                   !.heap = [i \in DOMAIN @ \ {w.plugins[pluginId]} |-> @[i]],
                   !.calls = Append(@, UnregisterCall(pluginId))]
    ELSE [w EXCEPT !.calls = Append(@, UnregisterCall(pluginId))]

\* Plugin.start(): launches the process with the stored configuration; ok tells
\* whether the launch succeeded
PluginStart(w, i, ok) ==
    [w EXCEPT !.heap[i].process = IF ok THEN "running" ELSE "failed",
              !.starts = Append(@, [plugin |-> i, exec |-> w.heap[i].exec,
                                    execPath |-> w.heap[i].execPath])]

\* the proxies a Plugin owns, in the order it releases them
OwnedProxies(self) ==
    [k \in 1..Cardinality(DOMAIN self.adapters) |->
        Proxy("adapter", SetToSeq(DOMAIN self.adapters)[k], self.pluginId)]
    \o [k \in 1..Cardinality(self.notifiers) |->
        Proxy("notifier", SetToSeq(self.notifiers)[k], self.pluginId)]
    \o [k \in 1..Cardinality(self.apiHandlers) |->
        Proxy("apiHandler", SetToSeq(self.apiHandlers)[k], self.pluginId)]

\* the Plugin object i gives up after its connection closed and the grace period
\* passed: it releases its proxies, then calls unregisterPlugin
PluginOnClose(w, i) ==
    LET self == w.heap[i]
    IN  unregisterPlugin(
            [w EXCEPT !.heap[i].adapters = EmptyMap,
                      !.heap[i].notifiers = {},
                      !.heap[i].apiHandlers = {},
                      !.released = @ \o OwnedProxies(self),
                      !.calls = @ \o [k \in 1..Len(OwnedProxies(self)) |->
                            [fn |-> "release", proxy |-> OwnedProxies(self)[k]]]],
            self.pluginId)

\* a state update that creates the proxy it does not find
PluginOnMsg_CreatesOnUpdate(w, i, msg) ==
    LET self == w.heap[i]
        a == msg.data.adapterId
        v == [w EXCEPT !.delivered = Append(@, i)]
    IN  CASE msg.messageType = ADAPTER_ADDED ->
                addAdapter([v EXCEPT !.heap[i].adapters = MapSet(@, a, UNDEF)],
                           Proxy("adapter", a, self.pluginId))
          [] msg.messageType = NOTIFIER_ADDED ->
                addNotifier([v EXCEPT !.heap[i].notifiers = @ \cup {a}],
                            Proxy("notifier", a, self.pluginId))
          [] msg.messageType = API_HANDLER_ADDED ->
                addAPIHandler([v EXCEPT !.heap[i].apiHandlers = @ \cup {a}],
                              Proxy("apiHandler", a, self.pluginId))
          [] msg.messageType = PROPERTY_CHANGED ->
                [v EXCEPT !.heap[i].adapters = MapSet(@, a, msg.data.value)]
          [] msg.messageType = PLUGIN_UNLOADED ->
                unregisterPlugin(
                    [v EXCEPT !.heap[i].adapters = EmptyMap,
                              !.heap[i].notifiers = {},
                              !.heap[i].apiHandlers = {},
                              !.released = @ \o OwnedProxies(self),
                              !.calls = @ \o [k \in 1..Len(OwnedProxies(self)) |->
                                    [fn |-> "release", proxy |-> OwnedProxies(self)[k]]]],
                    self.pluginId)
          [] OTHER -> v

\* Plugin.onMsg(msg) of Plugin object i
PluginOnMsg(w, i, msg) ==
    LET self == w.heap[i]
        a == msg.data.adapterId
        v == [w EXCEPT !.delivered = Append(@, i)]
    IN  CASE msg.messageType = ADAPTER_ADDED ->
                addAdapter([v EXCEPT !.heap[i].adapters = MapSet(@, a, UNDEF)],
                           Proxy("adapter", a, self.pluginId))
          [] msg.messageType = NOTIFIER_ADDED ->
                addNotifier([v EXCEPT !.heap[i].notifiers = @ \cup {a}],
                            Proxy("notifier", a, self.pluginId))
          [] msg.messageType = API_HANDLER_ADDED ->
                addAPIHandler([v EXCEPT !.heap[i].apiHandlers = @ \cup {a}],
                              Proxy("apiHandler", a, self.pluginId))
          [] msg.messageType = PROPERTY_CHANGED ->
                IF MapHas(self.adapters, a)
                THEN [v EXCEPT !.heap[i].adapters[a] = msg.data.value]
                ELSE v
          [] msg.messageType = PLUGIN_UNLOADED ->
                unregisterPlugin(
                    [v EXCEPT !.heap[i].adapters = EmptyMap,
                              !.heap[i].notifiers = {},
                              !.heap[i].apiHandlers = {},
                              !.released = @ \o OwnedProxies(self),
                              !.calls = @ \o [k \in 1..Len(OwnedProxies(self)) |->
                                    [fn |-> "release", proxy |-> OwnedProxies(self)[k]]]],
                    self.pluginId)
          [] OTHER -> v

----------------------------------------------------------------------------
(* PluginServer *)

\* getPlugin answering with the first entry of the Map, whatever the id
getPlugin_First(w, pluginId) ==
    IF w.plugins = EmptyMap THEN NoPlugin
    ELSE w.plugins[CHOOSE k \in DOMAIN w.plugins :
                       \A j \in DOMAIN w.plugins : w.plugins[k] <= w.plugins[j]]

\* getPlugin falling back to the first entry of the Map for an id it does not hold
getPlugin_Fallback(w, pluginId) ==
    IF MapHas(w.plugins, pluginId) THEN w.plugins[pluginId] ELSE getPlugin_First(w, pluginId)

\* PluginServer.getPlugin
getPlugin(w, pluginId) == MapGet(w.plugins, pluginId)

\* registerPlugin without the lookup: a new Plugin on every call
registerPlugin_AlwaysNew(w, pluginId) ==
    [w EXCEPT !.plugins = MapSet(@, pluginId, w.ninst + 1),
              !.heap = (w.ninst + 1 :> NewPlugin(pluginId)) @@ @,
              !.ninst = @ + 1,
              !.plugin = w.ninst + 1]

\* registerPlugin without this.plugins.set: the new Plugin is returned but not kept
registerPlugin_NoSet(w, pluginId) ==
    IF MapHas(w.plugins, pluginId)
    THEN [w EXCEPT !.plugin = w.plugins[pluginId]]
    ELSE [w EXCEPT !.heap = (w.ninst + 1 :> NewPlugin(pluginId)) @@ @,
                   !.ninst = @ + 1,
                   !.plugin = w.ninst + 1]

\* PluginServer.registerPlugin: the Plugin for pluginId, constructed if absent
registerPlugin(w, pluginId) ==
    LET plugin == MapGet(w.plugins, pluginId)
    IN  IF plugin # NoPlugin
        THEN [w EXCEPT !.plugin = plugin]
        ELSE [w EXCEPT !.plugins = MapSet(@, pluginId, w.ninst + 1),
                       !.heap = (w.ninst + 1 :> NewPlugin(pluginId)) @@ @,
                       !.ninst = @ + 1,
                       !.plugin = w.ninst + 1]

\* a tag no handshake in flight carries
FreeTag(pend) == CHOOSE t \in 1..(Len(pend) + 1) : \A k \in 1..Len(pend) : pend[k].tag # t

\* the closure of one register request: msg, ws and the two local variables
Handshake(pend, msg, ws) ==
    [tag |-> FreeTag(pend), pluginId |-> msg.data.pluginId, ws |-> ws, stage |-> "language",
     language |-> DefaultLanguage, temperature |-> DefaultTemperature]

\* JSON.stringify leaves out the properties whose value is undefined
JSONStringify(obj) == [f \in {g \in DOMAIN obj : obj[g] # UNDEF} |-> obj[f]]

\* reading a property of the parsed text
JSONGet(text, f) == IF f \in DOMAIN text THEN text[f] ELSE UNDEF

\* the object passed to JSON.stringify at the end of the handshake, by property path
RegisterResponse(h) ==
    [messageType |-> PLUGIN_REGISTER_RESPONSE,
     data_pluginId |-> h.pluginId,
     data_gatewayVersion |-> PkgVersion,
     data_userProfile_addonsDir |-> "UserProfile.addonsDir",
     data_userProfile_baseDir |-> "UserProfile.baseDir",
     data_userProfile_configDir |-> "UserProfile.configDir",
     data_userProfile_dataDir |-> "UserProfile.dataDir",
     data_userProfile_mediaDir |-> "UserProfile.mediaDir",
     data_userProfile_logDir |-> "UserProfile.logDir",
     data_userProfile_gatewayDir |-> "UserProfile.gatewayDir",
     data_preferences_language |-> h.language,
     data_preferences_units_temperature |-> h.temperature]

\* the response sent on the channel bound to the Plugin (plugin.ws), not on the
\* connection of the chain's own request
SendResponse_ToBoundChannel(w, h) ==
    LET c == IF MapHas(w.plugins, h.pluginId) THEN w.heap[w.plugins[h.pluginId]].ws ELSE h.ws
    IN  [w EXCEPT !.sent = Append(@, [ws |-> c, text |-> JSONStringify(RegisterResponse(h))])]

\* the response built from the request received last, not from the chain's own request
SendResponse_LatestRequest(w, h) ==
    LET g == IF w.pending = <<>> THEN h
             ELSE [h EXCEPT !.pluginId = w.pending[Len(w.pending)].pluginId]
    IN  [w EXCEPT !.sent = Append(@, [ws |-> h.ws, text |-> JSONStringify(RegisterResponse(g))])]

\* the last link of the promise chain: ws.send(JSON.stringify({...}))
SendResponse(w, h) ==
    [w EXCEPT !.sent = Append(@, [ws |-> h.ws, text |-> JSONStringify(RegisterResponse(h))])]

\* a sequence without its k-th element
Without(s, k) == SubSeq(s, 1, k - 1) \o SubSeq(s, k + 1, Len(s))

\* the channel handle set only while the Plugin has none
bind_OnlyIfUnbound(w, plugin, ws) ==
    IF w.heap[plugin].ws = UNDEF THEN [w EXCEPT !.heap[plugin].ws = ws] ELSE w

\* (plugin as any).ws = ws
bind(w, plugin, ws) == [w EXCEPT !.heap[plugin].ws = ws]

\* a dispatch that serves nothing while a handshake is in flight
onMsg_WaitsForHandshakes(w, msg, ws) ==
    IF msg.data = NoData
    THEN [w EXCEPT !.raised = TRUE]
    ELSE IF w.pending # <<>>
    THEN w
    ELSE IF msg.messageType = PLUGIN_REGISTER_REQUEST
    THEN LET r == registerPlugin(w, msg.data.pluginId)
         IN  [bind(r, r.plugin, ws) EXCEPT
                       !.pending = Append(@, Handshake(w.pending, msg, ws))]
    ELSE IF Truthy(msg.data.pluginId)
    THEN LET plugin == getPlugin(w, msg.data.pluginId)
         IN  IF plugin # NoPlugin
             THEN PluginOnMsg(w, plugin, msg)
             ELSE w
    ELSE w

\* PluginServer.onMsg(msg, ws)
onMsg(w, msg, ws) ==
    IF msg.data = NoData
    THEN \* reading msg.data.pluginId throws a TypeError
         [w EXCEPT !.raised = TRUE]
    ELSE IF msg.messageType = PLUGIN_REGISTER_REQUEST
    THEN LET r == registerPlugin(w, msg.data.pluginId)
         IN  [bind(r, r.plugin, ws) EXCEPT
                       !.pending = Append(@, Handshake(w.pending, msg, ws))]
    ELSE IF Truthy(msg.data.pluginId)
    THEN LET plugin == getPlugin(w, msg.data.pluginId)
         IN  IF plugin # NoPlugin
             THEN PluginOnMsg(w, plugin, msg)
             ELSE w
    ELSE w

\* the chain without its catch: a rejected lookup ends it, nothing is sent
LanguageSettles_NoCatch(w, k, result) ==
    LET h == w.pending[k]
    IN  IF result = Rejected
        THEN [w EXCEPT !.pending = Without(@, k)]
        ELSE [w EXCEPT !.pending[k].stage = "temperature",
                       !.pending[k].language = IF Truthy(result) THEN result ELSE @]

\* the first callback without its test: language = lang, whatever lang is
LanguageSettles_AssignsAlways(w, k, result) ==
    LET h == w.pending[k]
    IN  IF result = Rejected
        THEN SendResponse([w EXCEPT !.pending = Without(@, k)], h)
        ELSE [w EXCEPT !.pending[k].stage = "temperature",
                       !.pending[k].language = result]

\* the catch placed before the second lookup: a rejected language lookup is
\* recovered from and the temperature lookup still made
LanguageSettles_ContinuesOnReject(w, k, result) ==
    [w EXCEPT !.pending[k].stage = "temperature",
              !.pending[k].language =
                  IF result # Rejected /\ Truthy(result) THEN result ELSE @]

\* Settings.getSetting('localization.language') settles for the k-th pending handshake
LanguageSettles(w, k, result) ==
    LET h == w.pending[k]
    IN  IF result = Rejected
        THEN \* both then-callbacks are skipped, catch recovers, the response is sent
             SendResponse([w EXCEPT !.pending = Without(@, k)], h)
        ELSE [w EXCEPT !.pending[k].stage = "temperature",
                       !.pending[k].language = IF Truthy(result) THEN result ELSE @]

\* the chain without its catch: a rejected second lookup ends it, nothing is sent
TemperatureSettles_NoCatch(w, k, result) ==
    LET h == w.pending[k]
        g == [h EXCEPT !.temperature = IF Truthy(result) THEN result ELSE @]
    IN  IF result = Rejected
        THEN [w EXCEPT !.pending = Without(@, k)]
        ELSE SendResponse([w EXCEPT !.pending = Without(@, k)], g)

\* responses held back until the earlier requests have been answered
TemperatureSettles_InArrivalOrder(w, k, result) ==
    LET h == w.pending[k]
        g == [h EXCEPT !.temperature =
                 IF result # Rejected /\ Truthy(result) THEN result ELSE @]
    IN  IF k = 1
        THEN SendResponse([w EXCEPT !.pending = Without(@, k)], g)
        ELSE w

\* the chain given up, nothing sent, when its plugin has been unregistered meanwhile
TemperatureSettles_CancelsUnregistered(w, k, result) ==
    LET h == w.pending[k]
        g == [h EXCEPT !.temperature =
                 IF result # Rejected /\ Truthy(result) THEN result ELSE @]
    IN  IF MapHas(w.plugins, h.pluginId)
        THEN SendResponse([w EXCEPT !.pending = Without(@, k)], g)
        ELSE [w EXCEPT !.pending = Without(@, k)]

\* Settings.getSetting('localization.units.temperature') settles for the k-th handshake
TemperatureSettles(w, k, result) ==
    LET h == w.pending[k]
        g == [h EXCEPT !.temperature =
                 IF result # Rejected /\ Truthy(result) THEN result ELSE @]
    IN  SendResponse([w EXCEPT !.pending = Without(@, k)], g)

\* the entry taken out of the registry again when the launch fails
loadPlugin_DropsFailed(w, pluginPath, manifest, ok) ==
    LET r == registerPlugin(w, manifest.name)
        t == PluginStart([r EXCEPT !.heap[r.plugin].exec = manifest.moziot.exec,
                                   !.heap[r.plugin].execPath = pluginPath],
                         r.plugin, ok)
    IN  IF ok THEN t
        ELSE [t EXCEPT !.plugins = MapDelete(@, manifest.name),
                       !.heap = [i \in DOMAIN @ \ {r.plugin} |-> @[i]]]

\* start() called before the launch configuration is attached
loadPlugin_StartsFirst(w, pluginPath, manifest, ok) ==
    LET r == registerPlugin(w, manifest.name)
        t == PluginStart(r, r.plugin, ok)
    IN  [t EXCEPT !.heap[r.plugin].exec = manifest.moziot.exec,
                  !.heap[r.plugin].execPath = pluginPath]

\* PluginServer.loadPlugin(pluginPath, manifest)
loadPlugin(w, pluginPath, manifest, ok) ==
    LET r == registerPlugin(w, manifest.name)
    IN  PluginStart([r EXCEPT !.heap[r.plugin].exec = manifest.moziot.exec,
                              !.heap[r.plugin].execPath = pluginPath],
                    r.plugin, ok)

\* IpcSocket.close() (gateway-addon): the transport stops; closing it again
\* changes nothing
IpcSocketClose(w) == [w EXCEPT !.ipcOpen = FALSE]

\* a shutdown that also empties the registry
shutdown_ClearsRegistry(w) ==
    [IpcSocketClose(w) EXCEPT !.plugins = EmptyMap, !.heap = [i \in {} |-> @[i]]]

\* PluginServer.shutdown(): this.ipcSocket.close()
shutdown(w) == IpcSocketClose(w)

----------------------------------------------------------------------------
(* GatewayModel: the job queue *)

\* what a job passed to addQueue does when called: return a plain value, throw,
\* or return a promise that is fulfilled or rejected later
Jobs == {"value", "throw", "resolve", "reject"}

\* the promise made by Promise.resolve(true)
Resolved == 0

\* new GatewayModel(): this.queue = Promise.resolve(true)
NewGatewayModel == [queue |-> Resolved, chain |-> <<>>]

\* the GatewayModel as it is now
Gateway == [queue |-> queue, chain |-> chain]

\* each job on a promise of its own: Promise.resolve(true).then(job).catch(...)
addQueue_Unchained(g, job) ==
    [queue |-> Len(g.chain) + 1,
     chain |-> Append(g.chain, [on |-> Resolved, job |-> job, status |-> "queued",
                                caught |-> TRUE])]

\* GatewayModel.addQueue(job): this.queue = this.queue.then(job).catch(...); the
\* promise returned is the new this.queue
addQueue(g, job) ==
    [queue |-> Len(g.chain) + 1,
     chain |-> Append(g.chain, [on |-> g.queue, job |-> job, status |-> "queued",
                                caught |-> TRUE])]

\* the state of promise k: Resolved is fulfilled; a promise made by addQueue is
\* pending until its job has settled or been skipped, and then fulfilled unless
\* the job failed and no catch handler recovers
PromiseState(g, k) ==
    IF k = Resolved THEN "fulfilled"
    ELSE IF g.chain[k].status \in {"queued", "running"} THEN "pending"
    ELSE IF g.chain[k].status = "fulfilled" \/ g.chain[k].caught THEN "fulfilled"
    ELSE "rejected"

\* the reaction registered by then(job) on the promise the k-th job is chained on:
\* the job is called if that promise was fulfilled and skipped if it was rejected
React(g, k) ==
    LET link == g.chain[k]
    IN  [g EXCEPT !.chain[k].status =
            IF PromiseState(g, link.on) = "rejected" THEN "skipped"
            ELSE IF link.job = "throw" THEN "threw"
            ELSE IF link.job = "value" THEN "fulfilled"
            ELSE "running"]

\* the promise returned by the k-th job settles
Settle(g, k) ==
    [g EXCEPT !.chain[k].status = IF g.chain[k].job = "resolve" THEN "fulfilled"
                                  ELSE "rejected"]

----------------------------------------------------------------------------
(* GatewayModel: things and thing models *)

ThingIds == {"a", "b"}
DirectoryIds == {"d"}

\* the last path segment of a description's href: plain, percent-encoded ("%61" is
\* "a") or malformed ("%")
Segments == {"a", "b", "%61", "%"}
URIError == "<URIError>"

\* decodeURIComponent
decodeURIComponent(segment) ==
    IF segment = "%" THEN URIError
    ELSE IF segment = "%61" THEN "a"
    ELSE segment

\* a description, for what the model reads of it: the last segment of its href
Descriptions == Segments \ {"%"}

\* events of the GatewayModel
REFRESH_THINGS == "refreshThings"
DELETE_THINGS == "deleteThings"

\* the maps made by new GatewayModel(); run holds, for each job that has been
\* called and has not settled, the API call it waits for
NewGatewayMaps ==
    [things |-> EmptyMap, thingModels |-> EmptyMap, directories |-> {}, run |-> EmptyMap]

\* the state of the GatewayModel, and the effects of the operation that led to it
GatewayEffects(q, c, g) ==
    [queue       |-> q,
     chain       |-> c,
     things      |-> g.things,
     thingModels |-> g.thingModels,
     directories |-> g.directories,
     run         |-> g.run,
     events      |-> <<>>,      \* events passed to handleEvent, in order
     modelCalls  |-> <<>>,      \* calls made on thing models, in order
     raised      |-> FALSE,     \* an error left the operation
     rejected    |-> FALSE,     \* Promise.reject(...) was returned
     result      |-> Resolved]  \* the promise of the queue that was returned, if one was

\* the GatewayModel as it is now, nothing done yet
GatewayWorld == GatewayEffects(queue, chain, gateway)

\* the state w, as the start of a further operation
GatewayAfter(w) ==
    GatewayEffects(w.queue, w.chain,
                   [things |-> w.things, thingModels |-> w.thingModels,
                    directories |-> w.directories, run |-> w.run])

\* this.handleEvent(event, this.things, this.directories)
handleEvent(w, event) == [w EXCEPT !.events = Append(@, event)]

\* GatewayModel.setThing(thingId, description): the thing model is updated from
\* the description if there is one and constructed from it otherwise
setThing(w, thingId, description) ==
    IF MapHas(w.thingModels, thingId)
    THEN [w EXCEPT !.thingModels[thingId].description = description,
                   !.things = MapSet(@, thingId, description)]
    ELSE [w EXCEPT !.thingModels = MapSet(@, thingId, [description |-> description]),
                   !.things = MapSet(@, thingId, description)]

\* handleRemove deleting from thingModels only
handleRemove_KeepsDescription(w, thingId, skipEvent) ==
    LET r == [w EXCEPT !.thingModels = MapDelete(@, thingId)]
    IN  IF skipEvent THEN r ELSE handleEvent(r, DELETE_THINGS)

\* GatewayModel.handleRemove(thingId, skipEvent)
handleRemove(w, thingId, skipEvent) ==
    LET r == [w EXCEPT !.thingModels = MapDelete(@, thingId),
                       !.things = MapDelete(@, thingId)]
    IN  IF skipEvent THEN r ELSE handleEvent(r, DELETE_THINGS)

\* things.forEach of refreshThings: acc holds the world and the fetchedIds so far;
\* a href that does not decode throws and ends the loop
RECURSIVE forEachThing(_, _)
forEachThing(acc, things) ==
    IF things = <<>> THEN acc
    ELSE LET description == Head(things)
             thingId == decodeURIComponent(description)
         IN  IF thingId = URIError
             THEN [acc EXCEPT !.w.raised = TRUE]
             ELSE forEachThing([w |-> setThing(acc.w, thingId, description),
                                fetchedIds |-> acc.fetchedIds \cup {thingId}],
                               Tail(things))

\* removedIds.forEach((thingId) => this.handleRemove(thingId, true))
RECURSIVE forEachRemoved(_, _)
forEachRemoved(w, removedIds) ==
    IF removedIds = <<>> THEN w
    ELSE forEachRemoved(handleRemove(w, Head(removedIds), TRUE), Tail(removedIds))

\* the first callback of the refreshThings job, given what API.getThings() returned,
\* with the ids it fetched
onThings(w, things) ==
    LET acc == forEachThing([w |-> w, fetchedIds |-> {}], things)
        removedIds == SetToSeq(DOMAIN acc.w.thingModels \ acc.fetchedIds)
    IN  IF acc.w.raised THEN acc
        ELSE [acc EXCEPT !.w = forEachRemoved(acc.w, removedIds)]

\* the second callback of the refreshThings job, given what API.getDirectories()
\* returned
onDirectories(w, directories) ==
    LET ids == {decodeURIComponent(directories[i]) : i \in 1..Len(directories)}
    IN  IF URIError \in ids
        THEN [w EXCEPT !.directories = @ \cup {decodeURIComponent(directories[i]) :
                                 i \in {j \in 1..Len(directories) :
                                          \A h \in 1..j : directories[h] # "%"}},
                       !.raised = TRUE]
        ELSE handleEvent([w EXCEPT !.directories = ids], REFRESH_THINGS)

\* the jobs the GatewayModel passes to addQueue
ThingJobs ==
    {[fn |-> "refreshThings", id |-> UNDEF]}
    \cup {[fn |-> f, id |-> i] : f \in {"refreshThing", "removeThing", "updateThing"},
                                 i \in ThingIds}

\* return this.addQueue(job)
Enqueue(w, job) ==
    LET g == addQueue([queue |-> w.queue, chain |-> w.chain], job)
    IN  [w EXCEPT !.queue = g.queue, !.chain = g.chain, !.result = g.queue]

\* GatewayModel.refreshThings()
refreshThings(w) == Enqueue(w, [fn |-> "refreshThings", id |-> UNDEF])

\* GatewayModel.refreshThing(thingId)
refreshThing(w, thingId) == Enqueue(w, [fn |-> "refreshThing", id |-> thingId])

\* GatewayModel.removeThing(thingId)
removeThing(w, thingId) ==
    IF ~MapHas(w.thingModels, thingId)
    THEN [w EXCEPT !.rejected = TRUE]
    ELSE Enqueue(w, [fn |-> "removeThing", id |-> thingId])

\* GatewayModel.updateThing(thingId, updates)
updateThing(w, thingId) ==
    IF ~MapHas(w.thingModels, thingId)
    THEN [w EXCEPT !.rejected = TRUE]
    ELSE Enqueue(w, [fn |-> "updateThing", id |-> thingId])

\* the API call a job that has been called waits for
Waiting(stage, fetchedIds) == [stage |-> stage, fetchedIds |-> fetchedIds]

\* the k-th job is over: what it returned has settled
JobEnds(w, k, status) ==
    [w EXCEPT !.chain[k].status = status, !.run = MapDelete(@, k), !.raised = FALSE]

\* the job called without the test made at its turn
CallJob_NoTest(w, k) ==
    LET job == w.chain[k].job
        fn == IF job.fn \in {"removeThing", "updateThing"} THEN job.fn ELSE "getThing"
    IN  IF PromiseState(w, w.chain[k].on) = "rejected"
        THEN [w EXCEPT !.chain[k].status = "skipped"]
        ELSE IF job.fn = "refreshThings"
        THEN [w EXCEPT !.chain[k].status = "running",
                       !.run = MapSet(@, k, Waiting("getThings", {}))]
        ELSE [w EXCEPT !.chain[k].status = "running",
                       !.run = MapSet(@, k, Waiting(fn, {})),
                       !.modelCalls = IF fn = "getThing" THEN @
                                      ELSE Append(@, [fn |-> fn, id |-> job.id])]

\* the reaction registered by then(job) for the k-th job of the GatewayModel: the
\* job is called; removeThing and updateThing jobs throw when the thing model is
\* gone and call it otherwise, the refresh jobs call the API
CallJob(w, k) ==
    LET job == w.chain[k].job
    IN  IF PromiseState(w, w.chain[k].on) = "rejected"
        THEN [w EXCEPT !.chain[k].status = "skipped"]
        ELSE IF job.fn = "refreshThings"
        THEN [w EXCEPT !.chain[k].status = "running",
                       !.run = MapSet(@, k, Waiting("getThings", {}))]
        ELSE IF job.fn = "refreshThing"
        THEN [w EXCEPT !.chain[k].status = "running",
                       !.run = MapSet(@, k, Waiting("getThing", {}))]
        ELSE IF ~MapHas(w.thingModels, job.id)
        THEN [w EXCEPT !.chain[k].status = "threw"]
        ELSE [w EXCEPT !.chain[k].status = "running",
                       !.run = MapSet(@, k, Waiting(job.fn, {})),
                       !.modelCalls = Append(@, [fn |-> job.fn, id |-> job.id])]

\* API.getThings() of the k-th job settles: a rejection and a throwing callback are
\* caught and logged, otherwise API.getDirectories() is called
getThingsSettles(w, k, result) ==
    IF result.rejected THEN JobEnds(w, k, "fulfilled")
    ELSE LET acc == onThings(w, result.value)
         IN  IF acc.w.raised THEN JobEnds(acc.w, k, "fulfilled")
             ELSE [acc.w EXCEPT !.run[k] = Waiting("getDirectories", acc.fetchedIds)]

\* API.getDirectories() of the k-th job settles
getDirectoriesSettles(w, k, result) ==
    IF result.rejected THEN JobEnds(w, k, "fulfilled")
    ELSE JobEnds(onDirectories(w, result.value), k, "fulfilled")

\* API.getThing(thingId) of the k-th job settles
getThingSettles(w, k, result) ==
    IF result = Rejected \/ result = UNDEF THEN JobEnds(w, k, "fulfilled")
    ELSE JobEnds(handleEvent(setThing(w, w.chain[k].job.id, result), REFRESH_THINGS),
                 k, "fulfilled")

\* thingModel.removeThing() of the k-th job settles; before that the thing model
\* may have emitted DELETE_THING with the id emitted (UNDEF: no event)
modelRemoveSettles(w, k, emitted, ok) ==
    JobEnds(IF emitted = UNDEF THEN w ELSE handleRemove(w, emitted, FALSE),
            k, IF ok THEN "fulfilled" ELSE "rejected")

\* thingModel.updateThing(updates) of the k-th job settles; when it is fulfilled
\* the callback calls this.refreshThing(thingId)
modelUpdateSettles(w, k, ok) ==
    IF ok THEN JobEnds(refreshThing(w, w.chain[k].job.id), k, "fulfilled")
    ELSE JobEnds(w, k, "rejected")

----------------------------------------------------------------------------
(* Directories *)

DirectoryNames == {"d1", "d2"}

\* the layout index of a Directory that has none (undefined)
NoIndex == -9
\* Infinity, as far as Math.min(directories.length - 1, ...) can tell
Infinity == 99

\* a < b in JavaScript, where an undefined operand makes the comparison false
Less(a, b) == a # NoIndex /\ b # NoIndex /\ a < b

Min(a, b) == IF a < b THEN a ELSE b
Max(a, b) == IF a < b THEN b ELSE a

\* events of Directories
LAYOUT_MODIFIED == "layoutModified"
DIRECTORY_ADDED == "directoryAdded"
DIRECTORY_REMOVED == "directoryRemoved"

\* this.getDirectoriesPromise when no load is under way
NoLoad == [state |-> "none", rows |-> EmptyMap]

\* new Directories() over the database rows db (directory id -> layout index)
NewDirectories(db) ==
    [directories |-> EmptyMap,      \* this.directories: id -> layout index of the Directory
     getDirectoriesPromise |-> NoLoad,
     db |-> db,                     \* the rows of the database
     flight |-> <<>>]               \* the calls that wait for a promise, in call order

\* the state of Directories, and the effects of the operation that led to it
DirectoriesEffects(d) ==
    [directories |-> d.directories,
     getDirectoriesPromise |-> d.getDirectoriesPromise,
     db |-> d.db,
     flight |-> d.flight,
     emitted  |-> <<>>,             \* events emitted, in order
     requests |-> <<>>,             \* requests made to the Database, in order
     returned |-> NoLoad,           \* the promise getDirectories returned
     error    |-> ""]               \* the error a promise was rejected with

\* Directories as it is now, nothing done yet
DirectoriesWorld == DirectoriesEffects(store)

\* the state of w alone
StoreOf(w) ==
    [directories |-> w.directories, getDirectoriesPromise |-> w.getDirectoriesPromise,
     db |-> w.db, flight |-> w.flight]

\* a promise already resolved with this.directories
ResolvedWithMap == [state |-> "resolved", rows |-> EmptyMap]

\* Directories.getDirectories(); the rows a pending load will deliver are those of
\* the database at the request, unless it delivers those at its completion
getDirectories(w) ==
    IF DOMAIN w.directories # {}
    THEN [w EXCEPT !.returned = ResolvedWithMap]
    ELSE IF w.getDirectoriesPromise.state # "none"
    THEN [w EXCEPT !.returned = w.getDirectoriesPromise]
    ELSE LET p == [state |-> "pending", rows |-> w.db]
         IN  [w EXCEPT !.getDirectoriesPromise = p,
                       !.requests = Append(@, "getDirectories"),
                       !.returned = p]

\* every call in flight loses the Directory object it holds (the map holds other
\* objects now)
Detach(flight, ids) ==
    [k \in 1..Len(flight) |->
        IF flight[k].id \in ids THEN [flight[k] EXCEPT !.attached = FALSE] ELSE flight[k]]

\* the callback of the load: the promise is forgotten and the map replaced by one
\* of new Directory objects made from the rows
onLoaded(w, rows) ==
    [w EXCEPT !.getDirectoriesPromise = NoLoad,
              !.directories = rows,
              !.flight = Detach(@, DirectoryNames)]

\* Database.getDirectories() is rejected: the callback does not run and the
\* rejected promise stays in getDirectoriesPromise
onLoadFailed(w) == [w EXCEPT !.getDirectoriesPromise.state = "rejected"]

\* a call waiting for a promise: the operation, the directory id it is about, the
\* (clamped) layout index it will set, the promise it waits for, and whether the
\* Directory object it holds is the one in the map
InFlightCall(op, id, index, stage, attached) ==
    [op |-> op, id |-> id, index |-> index, stage |-> stage, attached |-> attached]

\* the call at place k of the calls in flight is over
Done(w, k) == [w EXCEPT !.flight = [j \in 1..(Len(@) - 1) |-> IF j < k THEN @[j] ELSE @[j + 1]]]

\* directory.setLayoutIndex(index) on the Directory object of id held by a caller:
\* the object takes the index, and so does its row
setLayoutIndex(w, id, attached, index) ==
    [w EXCEPT !.directories = IF attached /\ id \in DOMAIN @
                              THEN [@ EXCEPT ![id] = index] ELSE @,
              !.db = IF id \in DOMAIN @ THEN [@ EXCEPT ![id] = index] ELSE @]

\* the index setDirectoryLayoutIndex settles on
Clamp(w, index) == Min(Cardinality(DOMAIN w.directories) - 1, Max(0, index))

\* the layout index d gets from directories.map(...) of setDirectoryLayoutIndex,
\* the moved directory being at from and going to index
Moved(d, from, index) ==
    IF Less(from, d) /\ d <= index THEN d - 1
    ELSE IF d # NoIndex /\ index <= d /\ Less(d, from) THEN d + 1
    ELSE d

\* setDirectoryLayoutIndex up to its first await: the other directories between
\* the old and the new place of the Directory of id move by one
moveOthers(w, id, index) ==
    LET from == w.directories[id]
        to == Clamp(w, index)
        moved == [d \in DOMAIN w.directories |-> Moved(w.directories[d], from, to)]
    IN  [w EXCEPT !.directories = moved,
                  !.db = [d \in DOMAIN @ |->
                             IF d \in DOMAIN moved THEN moved[d] ELSE @[d]]]

\* Directories.setDirectoryLayoutIndex(directory, index), directory being the
\* object the map holds for id: up to the first await
setDirectoryLayoutIndex(w, id, index) ==
    LET r == moveOthers(w, id, index)
    IN  [r EXCEPT !.flight = Append(@, InFlightCall("setDirectoryLayoutIndex", id,
                                                    Clamp(w, index), "moves", TRUE))]

\* Directories.createDirectory(id, description): up to the first await
createDirectory(w, id) ==
    [w EXCEPT !.requests = Append(@, "createDirectory"),
              !.flight = Append(@, InFlightCall("createDirectory", id, NoIndex, "db", FALSE))]

\* Database.createDirectory of the k-th call settles: when rejected the call is
\* over; otherwise the new Directory is put in the map and
\* setDirectoryLayoutIndex(directory, Infinity) runs up to its first await
createSettles(w, k, ok) ==
    LET id == w.flight[k].id
        r == [w EXCEPT !.db = MapSet(@, id, NoIndex),
                       !.directories = MapSet(@, id, NoIndex),
                       !.flight = Detach(@, {id})]
        t == moveOthers(r, id, Infinity)
    IN  IF ~ok THEN [Done(w, k) EXCEPT !.error = "database"]
        ELSE [t EXCEPT !.flight[k] = InFlightCall("createDirectory", id,
                                                  Clamp(r, Infinity), "moves", TRUE)]

\* Promise.all(movePromises) of the k-th call settles:
\* directory.setLayoutIndex(index) is called
movesSettle(w, k) ==
    LET f == w.flight[k]
    IN  [setLayoutIndex(w, f.id, f.attached, f.index) EXCEPT !.flight[k].stage = "set"]

\* directory.setLayoutIndex(index) of the k-th call settles: LAYOUT_MODIFIED is
\* emitted, createDirectory emits DIRECTORY_ADDED, and the call is over
setSettles(w, k) ==
    [Done(w, k) EXCEPT !.emitted =
        IF w.flight[k].op = "createDirectory"
        THEN <<LAYOUT_MODIFIED, DIRECTORY_ADDED>> ELSE <<LAYOUT_MODIFIED>>]

\* Directories.removeDirectory(id): up to the answer of the database
removeDirectory(w, id) ==
    [w EXCEPT !.requests = Append(@, "removeDirectory"),
              !.flight = Append(@, InFlightCall("removeDirectory", id, NoIndex, "db", FALSE))]

\* removeDirectory emitting its events also when the map has no such directory
removeSettles_AlwaysEmits(w, k, ok) ==
    [Done(w, k) EXCEPT !.emitted = <<LAYOUT_MODIFIED, DIRECTORY_REMOVED>>]

\* Database.removeDirectory of the k-th call settles: the callback of
\* removeDirectory
removeSettles(w, k, ok) ==
    LET id == w.flight[k].id
        r == [w EXCEPT !.db = MapDelete(@, id)]
        index == r.directories[id]
        rest == [d \in DOMAIN r.directories \ {id} |->
                    IF Less(index, r.directories[d]) THEN r.directories[d] - 1
                    ELSE r.directories[d]]
    IN  IF ~ok THEN [Done(w, k) EXCEPT !.error = "database"]
        ELSE IF id \notin DOMAIN r.directories THEN Done(r, k)
        ELSE [Done([r EXCEPT !.flight = Detach(@, {id})], k) EXCEPT
                  !.directories = rest,
                  !.db = [d \in DOMAIN @ |-> IF d \in DOMAIN rest THEN rest[d] ELSE @[d]],
                  !.emitted = <<LAYOUT_MODIFIED, DIRECTORY_REMOVED>>]

\* the error of getDirectory
UnableToFind == "Unable to find directory"

\* the callback of getDirectory, given the map
onDirectoriesGot(w, id) ==
    IF id \in DOMAIN w.directories THEN w ELSE [w EXCEPT !.error = UnableToFind]

\* Directories.getDirectory(id): settled at once when getDirectories returns the
\* map or a rejected promise; otherwise its callback runs when the load settles
getDirectory(w, id) ==
    LET r == getDirectories(w)
    IN  IF r.returned.state = "resolved" THEN onDirectoriesGot(r, id)
        ELSE IF r.returned.state = "rejected" THEN [r EXCEPT !.error = "database"]
        ELSE r

\* Directories.clearState()
clearState(w) ==
    [w EXCEPT !.directories = EmptyMap, !.flight = Detach(@, DirectoryNames)]

----------------------------------------------------------------------------
(* ThingsScreen *)

\* the maps of things GatewayModel hands to its subscribers, as their key sets
ThingMaps == SUBSET ThingIds

\* ThingsScreen after init(): things is the array of rendered things, each made
\* for a thing id by some call of refreshThings; lookups are the getThingModel
\* promises whose callback has not run; cleaned the rendered things whose
\* cleanup() has been called; calls counts the calls of refreshThings and passed
\* is the map of the latest one; rejected the lookups that were rejected
NewThingsScreen ==
    [things |-> <<>>, lookups |-> {}, cleaned |-> {}, calls |-> 0,
     passed |-> {}, rejected |-> {}]

\* a thing rendered, or looked up, for thing id by the call-th refreshThings
Rendered(id, call) == [id |-> id, call |-> call]

\* ThingsScreen.renderThing(thingModel, description): the new thing is pushed
renderThing(s, id, call) == [s EXCEPT !.things = Append(@, Rendered(id, call))]

\* ThingsScreen.refreshThings(things): every rendered thing is popped and cleaned
\* up, and a lookup of the thing model is started for every entry of things
ThingsScreen_refreshThings(s, things) ==
    [s EXCEPT !.cleaned = @ \cup {s.things[k] : k \in 1..Len(s.things)},
              !.things = <<>>,
              !.calls = @ + 1,
              !.passed = things,
              !.lookups = @ \cup {Rendered(id, s.calls + 1) : id \in things}]

\* App.gatewayModel.getThingModel(thingId) of lookup l settles: the callback
\* renders the thing; a rejected lookup renders nothing
lookupSettles(s, l, ok) ==
    LET r == [s EXCEPT !.lookups = @ \ {l}]
    IN  IF ok THEN renderThing(r, l.id, l.call)
        ELSE [r EXCEPT !.rejected = @ \cup {l}]

----------------------------------------------------------------------------
(* RulePartBlock *)

\* where the pointer is: over the half of the rule area that makes a trigger,
\* over the half that makes an effect, or over the devices list below
Zones == {"trigger", "effect", "list"}

\* the transform of a block that was never moved
Start == "start"

\* new RulePartBlock(ruleArea, ...): no role, appended to the rule area
NewRulePartBlock ==
    [role |-> "",               \* this.role
     deviceBlock |-> "",        \* 'trigger' or 'effect' in deviceBlock.classList
     transform |-> Start,       \* this.elt.style.transform
     resetState |-> Start,      \* this.resetState.transform
     child |-> TRUE]            \* this.elt is a child of ruleArea

\* a rule area without blocks: neither drop area is inactive, no drag in progress
NewRuleArea ==
    [blocks |-> <<>>,
     triggerInactive |-> FALSE, \* 'inactive' in ruleTriggerArea.classList
     effectInactive |-> FALSE,  \* 'inactive' in ruleEffectArea.classList
     dragging |-> 0,            \* the block being dragged, 0 when none
     pointer |-> Start]         \* where onMove last saw the pointer

\* RulePartBlock.prototype.onDown of block b
onDown(a, b) ==
    [a EXCEPT !.blocks[b].resetState = a.blocks[b].transform,
              !.triggerInactive = IF a.blocks[b].role = "trigger" THEN FALSE ELSE @,
              !.effectInactive = IF a.blocks[b].role = "effect" THEN FALSE ELSE @,
              !.dragging = b,
              !.pointer = Start]

\* RulePartBlock.prototype.onMove of block b, the pointer in zone
onMove(a, b, zone) ==
    [a EXCEPT !.blocks[b].deviceBlock = IF zone = "list" THEN "" ELSE zone,
              !.blocks[b].transform = zone,
              !.pointer = zone]

\* RulePartBlock.prototype.remove of block b
remove(a, b) == [a EXCEPT !.blocks[b].child = FALSE]

\* RulePartBlock.prototype.reset of block b
reset(a, b) ==
    LET r == [a EXCEPT !.blocks[b].transform = a.blocks[b].resetState]
    IN  IF a.blocks[b].role = "trigger" THEN [r EXCEPT !.blocks[b].deviceBlock = "trigger"]
        ELSE IF a.blocks[b].role = "effect" THEN [r EXCEPT !.blocks[b].deviceBlock = "effect"]
        ELSE remove(r, b)

\* RulePartBlock.prototype.onUp of block b, the pointer being released where
\* onMove last saw it
onUp(a, b) ==
    LET cls == a.blocks[b].deviceBlock
        r == IF cls = "trigger"
             THEN IF a.triggerInactive THEN reset(a, b)
                  ELSE [a EXCEPT !.blocks[b].role = "trigger", !.triggerInactive = TRUE]
             ELSE IF cls = "effect"
             THEN IF a.effectInactive THEN reset(a, b)
                  ELSE [a EXCEPT !.blocks[b].role = "effect", !.effectInactive = TRUE]
             ELSE a
        t == IF a.pointer = "list" THEN remove(r, b) ELSE r
    IN  [t EXCEPT !.dragging = 0]

----------------------------------------------------------------------------
(* The state machine *)

LanguageResults == {Rejected} \cup EmptyResults \cup LanguageSettings
TemperatureResults == {Rejected} \cup EmptyResults \cup TemperatureSettings
Manifests == {[name |-> p, moziot |-> [exec |-> "exec"]] : p \in PluginIds}
Paths == {"path"}

\* the record of a step: the operation, the plugin id it was called for, the Plugin
\* it returned, called or removed, the handshake it belongs to and the place that
\* handshake had among those in flight; type is the message type of a dispatched
\* envelope and ws the connection a response was sent on
Last(op, id, plugin, tag, pos) ==
    [op |-> op, id |-> id, plugin |-> plugin, tag |-> tag, pos |-> pos,
     type |-> UNDEF, ws |-> UNDEF]

\* the plugin server and the GatewayModel after construction
InitModels ==
    /\ plugins = EmptyMap
    /\ heap = NoHeap
    /\ ninst = 0
    /\ pending = <<>>
    /\ last = Last("init", UNDEF, NoPlugin, 0, 0)
    /\ ipcOpen = TRUE
    /\ closed = {}
    /\ queue = NewGatewayModel.queue
    /\ chain = NewGatewayModel.chain
    /\ gateway = NewGatewayMaps
    /\ screen = NewThingsScreen
    /\ area = NewRuleArea

\* everything after construction, the database empty
Init ==
    /\ InitModels
    /\ store = NewDirectories(EmptyMap)

\* the rows the database may hold when the gateway starts
Databases == {EmptyMap, ("d1" :> 0), ("d1" :> 0) @@ ("d2" :> 1)}

\* everything after construction, over a database of earlier runs
InitDirectories ==
    /\ InitModels
    /\ store \in {NewDirectories(db) : db \in Databases}

\* The operation op, called for plugin id, took the server to w; plugin is the Plugin
\* it returned, called or removed, tag the handshake it belongs to and pos the place
\* that handshake had among those in flight (in arrival order).
StepTo(l, w) ==
    /\ plugins' = w.plugins
    /\ heap' = w.heap
    /\ ninst' = w.ninst
    /\ pending' = w.pending
    /\ last' = l
    /\ closed' = closed
    /\ ipcOpen' = w.ipcOpen
    /\ UNCHANGED <<queue, chain, gateway, store, screen, area>>

DoAt(op, id, plugin, tag, pos, w) == StepTo(Last(op, id, plugin, tag, pos), w)

Do(op, id, plugin, tag, w) == DoAt(op, id, plugin, tag, 0, w)

\* a new Plugin for pluginId can still be constructed within the bounds
CanConstruct(pluginId) == MapHas(plugins, pluginId) \/ ninst < MaxInst

\* an envelope arrives on the open connection ws of the shared transport
Receive(msg, ws) ==
    /\ ipcOpen
    /\ ws \notin closed
    /\ \E w \in {onMsg(World, msg, ws)} :
          StepTo([Last(IF w.raised THEN "onMsg.throw"
                       ELSE IF msg.messageType = PLUGIN_REGISTER_REQUEST
                       THEN "onMsg.register"
                       ELSE "onMsg",
                       IF msg.data = NoData THEN UNDEF ELSE msg.data.pluginId,
                       IF w.delivered # <<>> THEN w.delivered[1] ELSE w.plugin,
                       0, 0)
                    EXCEPT !.type = IF w.raised \/ msg.messageType = PLUGIN_REGISTER_REQUEST
                                    THEN UNDEF ELSE msg.messageType],
                 w)

\* a register request arrives, its plugin id (if it has one) among ids
ReceiveRegisterOf(ids) ==
    \E msg \in {m \in RegisterRequests :
                    IF m.data = NoData THEN TRUE ELSE m.data.pluginId \in ids},
       ws \in Conns :
        /\ msg.data # NoData => CanConstruct(msg.data.pluginId) /\ Len(pending) < MaxPending
        /\ Receive(msg, ws)

ReceiveRegister == ReceiveRegisterOf(IdValues)

\* any other envelope arrives
ReceiveOther == \E msg \in OtherEnvelopes, ws \in Conns : Receive(msg, ws)

\* a notifier or an API handler is announced
ReceiveCapability == \E msg \in CapabilityEnvelopes, ws \in Conns : Receive(msg, ws)

\* one of the two lookups of the k-th handshake settles
Settled(k, v) ==
    \E w \in {v} :
        StepTo([Last(IF w.sent # <<>> THEN "respond" ELSE "lookup", pending[k].pluginId,
                     NoPlugin, pending[k].tag, k)
                    EXCEPT !.ws = IF w.sent # <<>> THEN w.sent[1].ws ELSE UNDEF],
               w)

LanguageLookup(k) ==
    /\ k \in 1..Len(pending)
    /\ pending[k].stage = "language"
    /\ \E result \in LanguageResults : Settled(k, LanguageSettles(World, k, result))

TemperatureLookup(k) ==
    /\ k \in 1..Len(pending)
    /\ pending[k].stage = "temperature"
    /\ \E result \in TemperatureResults : Settled(k, TemperatureSettles(World, k, result))

\* the add-on manager loads a plugin whose id is among ids
LoadOf(ids) ==
    \E path \in Paths, manifest \in {m \in Manifests : m.name \in ids}, ok \in BOOLEAN :
        /\ CanConstruct(manifest.name)
        /\ \E w \in {loadPlugin(World, path, manifest, ok)} :
              Do("loadPlugin", manifest.name, w.plugin, 0, w)

Load == LoadOf(PluginIds)

\* registerPlugin is called for an id among ids
RegisterOf(ids) ==
    \E p \in ids :
        /\ CanConstruct(p)
        /\ \E w \in {registerPlugin(World, p)} :
              Do("registerPlugin", p, w.plugin, 0, w)

Register == RegisterOf(PluginIds)

UnregisterOf(ids) ==
    \E p \in ids :
        \E w \in {unregisterPlugin(World, p)} :
            Do("unregisterPlugin", p, MapGet(plugins, p), 0, w)

Unregister == UnregisterOf(IdValues)

\* shutdown() is called
Shutdown ==
    \E w \in {shutdown(World)} :
        Do(IF ipcOpen THEN "shutdown" ELSE "shutdown.again", UNDEF, NoPlugin, 0, w)

\* the connection c closes
Close(c) ==
    /\ c \in Conns \ closed
    /\ closed' = closed \cup {c}
    /\ last' = Last("close", UNDEF, NoPlugin, 0, 0)
    /\ UNCHANGED <<plugins, heap, ninst, pending, ipcOpen, queue, chain, gateway, store,
                   screen, area>>

\* the grace period of plugin p, whose connection has closed, runs out before p
\* has registered again
GraceExpires(p) ==
    /\ MapHas(plugins, p)
    /\ heap[plugins[p]].ws \in closed
    /\ \E w \in {PluginOnClose(World, plugins[p])} :
          Do("graceExpired", p, plugins[p], 0, w)

\* no handshake is in flight
Quiescent == pending = <<>>

\* One handshake at a time: the settings store answers before the next envelope is
\* dispatched or the next call is made.  The registry, the Plugin objects and the
\* reference counter take every value here that they take with handshakes overlapping,
\* since no step of a handshake reads or writes them.
Next ==
    \/ Quiescent /\ ReceiveRegister
    \/ Quiescent /\ ReceiveOther
    \/ \E k \in 1..MaxPending : LanguageLookup(k)
    \/ \E k \in 1..MaxPending : TemperatureLookup(k)
    \/ Quiescent /\ Load
    \/ Quiescent /\ Register
    \/ Quiescent /\ Unregister

Spec == Init /\ [][Next]_vars

\* the handshake tagged t is in flight
InFlight(t) == \E k \in 1..Len(pending) : pending[k].tag = t

\* the outstanding lookup of the handshake tagged t settles
LookupOf(t) ==
    \E k \in 1..MaxPending :
        /\ k <= Len(pending)
        /\ pending[k].tag = t
        /\ (LanguageLookup(k) \/ TemperatureLookup(k))

\* Self-registering plugins whose connections close
NextGrace ==
    \/ Quiescent /\ ReceiveRegisterOf(PluginIds)
    \/ \E k \in 1..MaxPending : LanguageLookup(k)
    \/ \E k \in 1..MaxPending : TemperatureLookup(k)
    \/ Quiescent /\ ReceiveOther
    \/ \E c \in Conns : Close(c)
    \/ \E p \in PluginIds : GraceExpires(p)

\* every grace period eventually runs out
SpecGrace == Init /\ [][NextGrace]_vars /\ \A p \in PluginIds : WF_vars(GraceExpires(p))

\* The server with its shutdown
NextShutdown ==
    \/ Next
    \/ Shutdown

SpecShutdown == Init /\ [][NextShutdown]_vars

\* every preference lookup eventually settles
SpecFair == Spec /\ \A t \in 1..MaxPending : WF_vars(LookupOf(t))

\* Handshakes overlap with each other, with further envelopes and with unregistrations
NextOverlap ==
    \/ ReceiveRegisterOf(PluginIds)
    \/ \E k \in 1..MaxPending : LanguageLookup(k)
    \/ \E k \in 1..MaxPending : TemperatureLookup(k)
    \/ UnregisterOf(PluginIds)

SpecOverlap == Init /\ [][NextOverlap]_vars

\* Self-registering plugins that announce capabilities of every kind and unload
NextCapabilities ==
    \/ Quiescent /\ ReceiveRegisterOf(PluginIds)
    \/ \E k \in 1..MaxPending : LanguageLookup(k)
    \/ \E k \in 1..MaxPending : TemperatureLookup(k)
    \/ Quiescent /\ ReceiveOther
    \/ Quiescent /\ ReceiveCapability

SpecCapabilities == Init /\ [][NextCapabilities]_vars

\* Other envelopes dispatched while handshakes are in flight
NextDispatch ==
    \/ NextOverlap
    \/ ReceiveOther

SpecDispatch == Init /\ [][NextDispatch]_vars

\* Overlapping handshakes, with connections closing under them
NextClose ==
    \/ NextOverlap
    \/ \E c \in Conns : Close(c)

SpecClose == Init /\ [][NextClose]_vars

\* One plugin that is registered, loaded, removed and registered again
NextReregister ==
    \/ Quiescent /\ ReceiveRegisterOf({"a"})
    \/ \E k \in 1..MaxPending : LanguageLookup(k)
    \/ \E k \in 1..MaxPending : TemperatureLookup(k)
    \/ Quiescent /\ ReceiveOther
    \/ Quiescent /\ LoadOf({"a"})
    \/ Quiescent /\ RegisterOf({"a"})
    \/ Quiescent /\ UnregisterOf({"a"})

SpecReregister == Init /\ [][NextReregister]_vars

----------------------------------------------------------------------------
(* GatewayModel: the steps of the job queue *)

\* the GatewayModel becomes g in a step recorded as op for promise k
QueueStep(op, k, g) ==
    /\ queue' = g.queue
    /\ chain' = g.chain
    /\ last' = Last(op, UNDEF, NoPlugin, k, 0)
    /\ UNCHANGED <<plugins, heap, ninst, pending, closed, ipcOpen, gateway, store,
                   screen, area>>

\* a job is passed to addQueue
AddQueue ==
    /\ Len(chain) < MaxJobs
    /\ \E job \in Jobs :
          \E g \in {addQueue(Gateway, job)} : QueueStep("addQueue", g.queue, g)

\* the promise the k-th job is chained on has settled and its reaction runs
JobReaction(k) ==
    /\ k \in 1..Len(chain)
    /\ chain[k].status = "queued"
    /\ PromiseState(Gateway, chain[k].on) # "pending"
    /\ QueueStep("job", k, React(Gateway, k))

\* the promise returned by the running k-th job settles
JobSettles(k) ==
    /\ k \in 1..Len(chain)
    /\ chain[k].status = "running"
    /\ QueueStep("settle", k, Settle(Gateway, k))

NextQueue ==
    \/ AddQueue
    \/ \E k \in 1..MaxJobs : JobReaction(k)
    \/ \E k \in 1..MaxJobs : JobSettles(k)

SpecQueue == Init /\ [][NextQueue]_vars

----------------------------------------------------------------------------
(* GatewayModel: the steps of things and thing models *)

\* how a promise of the API settles: rejected, or fulfilled with a value
Settlements(values) ==
    {[rejected |-> FALSE, value |-> v] : v \in values}
    \cup {[rejected |-> TRUE, value |-> <<>>]}

\* what API.getThings() and API.getDirectories() are fulfilled with
ThingLists == {<<>>, <<"a">>, <<"b">>, <<"a", "b">>, <<"%61", "a">>, <<"a", "%">>}
DirectoryLists == {<<>>, <<"d">>, <<"%">>}

\* the GatewayModel becomes w in a step recorded as op, for thing id and promise k
GatewayStep(op, id, k, w) ==
    /\ queue' = w.queue
    /\ chain' = w.chain
    /\ gateway' = [things |-> w.things, thingModels |-> w.thingModels,
                   directories |-> w.directories, run |-> w.run]
    /\ last' = Last(op, id, NoPlugin, k, 0)
    /\ UNCHANGED <<plugins, heap, ninst, pending, closed, ipcOpen, store, screen, area>>

\* a call that passes a job to addQueue has room for it
Room(w) == Len(w.chain) <= MaxJobs

RefreshThings ==
    \E w \in {refreshThings(GatewayWorld)} :
        Room(w) /\ GatewayStep("refreshThings", UNDEF, w.result, w)

RefreshThing ==
    \E thingId \in ThingIds :
        \E w \in {refreshThing(GatewayWorld, thingId)} :
            Room(w) /\ GatewayStep("refreshThing", thingId, w.result, w)

RemoveThing ==
    \E thingId \in ThingIds :
        \E w \in {removeThing(GatewayWorld, thingId)} :
            /\ Room(w)
            /\ IF w.rejected THEN GatewayStep("removeThing.rejected", thingId, 0, w)
               ELSE GatewayStep("removeThing", thingId, w.result, w)

UpdateThing ==
    \E thingId \in ThingIds :
        \E w \in {updateThing(GatewayWorld, thingId)} :
            /\ Room(w)
            /\ IF w.rejected THEN GatewayStep("updateThing.rejected", thingId, 0, w)
               ELSE GatewayStep("updateThing", thingId, w.result, w)

\* the promise the k-th job is chained on has settled and its reaction runs
JobTurn(k) ==
    /\ k \in 1..Len(chain)
    /\ chain[k].status = "queued"
    /\ PromiseState(Gateway, chain[k].on) # "pending"
    /\ \E w \in {CallJob(GatewayWorld, k)} :
          GatewayStep(IF w.chain[k].status = "threw" THEN "job.throw" ELSE "job",
                      chain[k].job.id, k, w)

\* the k-th job waits for the API call or thing model call named stage
WaitsFor(k, stage) ==
    /\ k \in DOMAIN gateway.run
    /\ gateway.run[k].stage = stage

GetThingsSettles(k) ==
    /\ WaitsFor(k, "getThings")
    /\ \E result \in Settlements(ThingLists) :
          \E w \in {getThingsSettles(GatewayWorld, k, result)} :
              GatewayStep(IF k \in DOMAIN w.run THEN "getThings" ELSE "refreshThings.failed",
                          UNDEF, k, w)

GetDirectoriesSettles(k) ==
    /\ WaitsFor(k, "getDirectories")
    /\ \E result \in Settlements(DirectoryLists) :
          \E w \in {getDirectoriesSettles(GatewayWorld, k, result)} :
              GatewayStep(IF w.events # <<>> THEN "refreshThings.done"
                          ELSE "refreshThings.failed", UNDEF, k, w)

GetThingSettles(k) ==
    /\ WaitsFor(k, "getThing")
    /\ \E result \in Descriptions \cup {UNDEF, Rejected} :
          \E w \in {getThingSettles(GatewayWorld, k, result)} :
              GatewayStep(IF w.events # <<>> THEN "refreshThing.done"
                          ELSE "refreshThing.failed", chain[k].job.id, k, w)

ModelRemoveSettles(k) ==
    /\ WaitsFor(k, "removeThing")
    /\ \E emitted \in ThingIds \cup {UNDEF}, ok \in BOOLEAN :
          \E w \in {modelRemoveSettles(GatewayWorld, k, emitted, ok)} :
              GatewayStep("removeThing.settled", chain[k].job.id, k, w)

ModelUpdateSettles(k) ==
    /\ WaitsFor(k, "updateThing")
    /\ \E ok \in BOOLEAN :
          \E w \in {modelUpdateSettles(GatewayWorld, k, ok)} :
              Room(w) /\ GatewayStep("updateThing.settled", chain[k].job.id, k, w)

NextThings ==
    \/ RefreshThings
    \/ RefreshThing
    \/ RemoveThing
    \/ UpdateThing
    \/ \E k \in 1..MaxJobs : JobTurn(k)
    \/ \E k \in 1..MaxJobs : GetThingsSettles(k)
    \/ \E k \in 1..MaxJobs : GetDirectoriesSettles(k)
    \/ \E k \in 1..MaxJobs : GetThingSettles(k)
    \/ \E k \in 1..MaxJobs : ModelRemoveSettles(k)
    \/ \E k \in 1..MaxJobs : ModelUpdateSettles(k)

SpecThings == Init /\ [][NextThings]_vars

----------------------------------------------------------------------------
(* Directories: the steps *)

\* the layout indices passed to setDirectoryLayoutIndex
Indices == {-1, 0, 1, Infinity}

\* Directories becomes w in a step recorded as op, for directory id and the call
\* at place k of those in flight
DirectoriesStep(op, id, k, w) ==
    /\ store' = StoreOf(w)
    /\ last' = Last(op, id, NoPlugin, k, 0)
    /\ UNCHANGED <<plugins, heap, ninst, pending, closed, ipcOpen, queue, chain, gateway,
                   screen, area>>

\* one more call can be in flight
FlightRoom == Len(store.flight) < MaxFlight

GetDirectories ==
    \E w \in {getDirectories(DirectoriesWorld)} :
        DirectoriesStep(IF w.requests # <<>> THEN "getDirectories.load"
                        ELSE "getDirectories", UNDEF, 0, w)

GetDirectory ==
    \E id \in DirectoryNames :
        \E w \in {getDirectory(DirectoriesWorld, id)} :
            DirectoriesStep(IF w.error # "" THEN "getDirectory.rejected"
                            ELSE "getDirectory", id, 0, w)

\* Database.getDirectories() settles: with the rows of the database at the request
\* or at the answer, or rejected
LoadSettles ==
    /\ store.getDirectoriesPromise.state = "pending"
    /\ \/ \E rows \in {store.getDirectoriesPromise.rows, store.db} :
             DirectoriesStep("loaded", UNDEF, 0, onLoaded(DirectoriesWorld, rows))
       \/ DirectoriesStep("load.failed", UNDEF, 0, onLoadFailed(DirectoriesWorld))

CreateDirectory ==
    /\ FlightRoom
    /\ \E id \in DirectoryNames :
          DirectoriesStep("createDirectory", id, 0,
                          createDirectory(DirectoriesWorld, id))

\* the k-th call in flight is a call of op that waits at stage
AtStage(k, ops, stage) ==
    /\ k \in 1..Len(store.flight)
    /\ store.flight[k].op \in ops
    /\ store.flight[k].stage = stage

\* the database answers createDirectory; it accepts no second row for an id
CreateSettles(k) ==
    /\ AtStage(k, {"createDirectory"}, "db")
    /\ \E ok \in BOOLEAN :
          /\ ok => store.flight[k].id \notin DOMAIN store.db
          /\ DirectoriesStep(IF ok THEN "createDirectory.set" ELSE "createDirectory.failed",
                             store.flight[k].id, k, createSettles(DirectoriesWorld, k, ok))

SetDirectoryLayoutIndex ==
    /\ FlightRoom
    /\ \E id \in DOMAIN store.directories, index \in Indices :
          DirectoriesStep("setDirectoryLayoutIndex", id, 0,
                          setDirectoryLayoutIndex(DirectoriesWorld, id, index))

MovesSettle(k) ==
    /\ AtStage(k, {"createDirectory", "setDirectoryLayoutIndex"}, "moves")
    /\ DirectoriesStep("moved", store.flight[k].id, k, movesSettle(DirectoriesWorld, k))

SetSettles(k) ==
    /\ AtStage(k, {"createDirectory", "setDirectoryLayoutIndex"}, "set")
    /\ DirectoriesStep(store.flight[k].op \o ".done", store.flight[k].id, k,
                       setSettles(DirectoriesWorld, k))

RemoveDirectory ==
    /\ FlightRoom
    /\ \E id \in DirectoryNames :
          DirectoriesStep("removeDirectory", id, 0,
                          removeDirectory(DirectoriesWorld, id))

RemoveSettles(k) ==
    /\ AtStage(k, {"removeDirectory"}, "db")
    /\ \E ok \in BOOLEAN :
          \E w \in {removeSettles(DirectoriesWorld, k, ok)} :
              DirectoriesStep(IF w.emitted # <<>> THEN "removeDirectory.done"
                              ELSE IF ok THEN "removeDirectory.none"
                              ELSE "removeDirectory.failed",
                              store.flight[k].id, k, w)

ClearState ==
    DirectoriesStep("clearState", UNDEF, 0, clearState(DirectoriesWorld))

\* Directories loaded, created, removed and cleared
NextDirectories ==
    \/ GetDirectories
    \/ GetDirectory
    \/ LoadSettles
    \/ CreateDirectory
    \/ \E k \in 1..MaxFlight : CreateSettles(k)
    \/ \E k \in 1..MaxFlight : MovesSettle(k)
    \/ \E k \in 1..MaxFlight : SetSettles(k)
    \/ RemoveDirectory
    \/ \E k \in 1..MaxFlight : RemoveSettles(k)
    \/ ClearState

SpecDirectories == InitDirectories /\ [][NextDirectories]_vars

\* Directories loaded, created, moved and removed
NextLayout ==
    \/ GetDirectories
    \/ LoadSettles
    \/ CreateDirectory
    \/ \E k \in 1..MaxFlight : CreateSettles(k)
    \/ SetDirectoryLayoutIndex
    \/ \E k \in 1..MaxFlight : MovesSettle(k)
    \/ \E k \in 1..MaxFlight : SetSettles(k)
    \/ RemoveDirectory
    \/ \E k \in 1..MaxFlight : RemoveSettles(k)

SpecLayout == InitDirectories /\ [][NextLayout]_vars

----------------------------------------------------------------------------
(* ThingsScreen and the rule area: the steps *)

\* ThingsScreen becomes s in a step recorded as op for thing id
ScreenStep(op, id, s) ==
    /\ screen' = s
    /\ last' = Last(op, id, NoPlugin, 0, 0)
    /\ UNCHANGED <<plugins, heap, ninst, pending, closed, ipcOpen, queue, chain, gateway,
                   store, area>>

\* GatewayModel calls the subscriber refreshThings with a map of things
ScreenRefreshThings ==
    /\ screen.calls < MaxRefresh
    /\ \E things \in ThingMaps :
          ScreenStep("ThingsScreen.refreshThings", UNDEF,
                     ThingsScreen_refreshThings(screen, things))

\* a lookup of a thing model settles
LookupSettles ==
    \E l \in screen.lookups, ok \in BOOLEAN :
        ScreenStep(IF ok THEN "renderThing" ELSE "lookup.rejected", l.id,
                   lookupSettles(screen, l, ok))

NextScreen == ScreenRefreshThings \/ LookupSettles

SpecScreen == Init /\ [][NextScreen]_vars

\* the rule area becomes a in a step recorded as op for block b
AreaStep(op, b, a) ==
    /\ area' = a
    /\ last' = Last(op, UNDEF, NoPlugin, b, 0)
    /\ UNCHANGED <<plugins, heap, ninst, pending, closed, ipcOpen, queue, chain, gateway,
                   store, screen>>

\* a block is made in the rule area
NewBlock ==
    /\ area.dragging = 0
    /\ Len(area.blocks) < MaxBlocks
    /\ AreaStep("RulePartBlock", Len(area.blocks) + 1,
                [area EXCEPT !.blocks = Append(@, NewRulePartBlock)])

\* the pointer goes down on a block of the rule area
OnDown ==
    /\ area.dragging = 0
    /\ \E b \in 1..Len(area.blocks) :
          /\ area.blocks[b].child
          /\ AreaStep("onDown", b, onDown(area, b))

\* the pointer moves during a drag
OnMove ==
    /\ area.dragging # 0
    /\ \E zone \in Zones : AreaStep("onMove", area.dragging, onMove(area, area.dragging, zone))

\* the pointer goes up after it has moved
OnUp ==
    /\ area.dragging # 0
    /\ area.pointer # Start
    /\ AreaStep("onUp", area.dragging, onUp(area, area.dragging))

NextArea == NewBlock \/ OnDown \/ OnMove \/ OnUp

SpecArea == Init /\ [][NextArea]_vars

----------------------------------------------------------------------------
(* Properties.  An operation's effect is stated for every input in every     *)
(* reachable state: the operation is applied to the current state (World)    *)
(* and its result compared with that state.                                  *)

\* the register request of plugin id p
RegisterRequest(p) == [messageType |-> PLUGIN_REGISTER_REQUEST, data |-> Data(p, UNDEF, UNDEF)]

\* the envelopes that are no register request and carry the plugin id p
EnvelopesOf(p) == {msg \in OtherEnvelopes : IF msg.data = NoData THEN FALSE ELSE msg.data.pluginId = p}

\* the live Plugin objects with plugin id p
PluginsOf(hp, p) == {i \in DOMAIN hp : hp[i].pluginId = p}

\* the operation left the registry, the Plugin objects and the handshakes alone
\* and called nothing
NoEffect(r, w) ==
    /\ r.plugins = w.plugins
    /\ r.heap = w.heap
    /\ r.ninst = w.ninst
    /\ r.pending = w.pending
    /\ r.ipcOpen = w.ipcOpen
    /\ r.delivered = <<>>
    /\ r.mgr = <<>>
    /\ r.released = <<>>
    /\ r.calls = <<>>
    /\ r.sent = <<>>
    /\ r.starts = <<>>

\* C1: in every reachable state the registry holds at most one Plugin per plugin id
\* (every live Plugin is the one entry of its id), and a register request or a
\* loadPlugin for an id already present returns the existing Plugin, constructs
\* none, leaves the registry as it is and raises nothing.
C1_OnePluginPerId ==
    /\ \A i \in DOMAIN heap : Cardinality(PluginsOf(heap, heap[i].pluginId)) = 1
    /\ \A i \in DOMAIN heap : MapGet(plugins, heap[i].pluginId) = i
    /\ \A p \in DOMAIN plugins : plugins[p] \in DOMAIN heap
    /\ \A p \in DOMAIN plugins, ws \in Conns :
          \A r \in {onMsg(World, RegisterRequest(p), ws)} :
              /\ r.plugin = plugins[p]
              /\ r.plugins = plugins
              /\ DOMAIN r.heap = DOMAIN heap
              /\ r.ninst = ninst
              /\ ~r.raised
    /\ \A m \in Manifests, path \in Paths, ok \in BOOLEAN :
          m.name \in DOMAIN plugins =>
              \A r \in {loadPlugin(World, path, m, ok)} :
                  /\ r.plugin = plugins[m.name]
                  /\ r.plugins = plugins
                  /\ DOMAIN r.heap = DOMAIN heap
                  /\ r.ninst = ninst
                  /\ ~r.raised

\* a register request has just been answered with a Plugin that existed before it
C1_Witness ==
    /\ last.op = "onMsg.register"
    /\ last.plugin # NoPlugin
    /\ last.plugin < ninst
    /\ plugins[last.id] = last.plugin

\* C2: for every id p, registerPlugin(p) succeeds, a second registerPlugin(p) right
\* after it returns the identical Plugin and changes nothing, the registry then
\* holds exactly one Plugin for p, and while p stays registered registerPlugin(p)
\* returns the registered Plugin.
C2_RegisterIdempotent ==
    /\ \A p \in IdValues :
          \A r1 \in {registerPlugin(World, p)} :
              \A r2 \in {registerPlugin(After(r1), p)} :
                  /\ r1.plugin # NoPlugin
                  /\ ~r1.raised /\ ~r2.raised
                  /\ r2.plugin = r1.plugin
                  /\ r2.plugins = r1.plugins
                  /\ r2.heap = r1.heap
                  /\ r2.ninst = r1.ninst
                  /\ MapGet(r2.plugins, p) = r2.plugin
                  /\ PluginsOf(r2.heap, p) = {r2.plugin}
                  /\ (MapHas(plugins, p) => r1.plugin = plugins[p])
    /\ last.op = "registerPlugin" => MapGet(plugins, last.id) = last.plugin

\* registerPlugin(p) has just returned a Plugin that an earlier register request
\* for p had constructed and bound
C2_Witness ==
    /\ last.op = "registerPlugin"
    /\ MapGet(plugins, last.id) = last.plugin
    /\ last.plugin < ninst
    /\ heap[last.plugin].ws # UNDEF

\* C3: every envelope that is no register request and carries a plugin id p (a
\* non-empty one) present in the registry is passed exactly once to the onMsg of
\* the Plugin registered under p, and to no other Plugin's.
C3_Routing ==
    \A p \in DOMAIN plugins :
        Truthy(p) =>
            \A msg \in EnvelopesOf(p), ws \in Conns :
                \A r \in {onMsg(World, msg, ws)} :
                    /\ r.delivered = <<plugins[p]>>
                    /\ heap[plugins[p]].pluginId = p
                    /\ ~r.raised

\* an envelope has just been passed to its Plugin while another Plugin was registered
C3_Witness ==
    /\ last.op = "onMsg"
    /\ last.plugin # NoPlugin
    /\ MapGet(plugins, last.id) = last.plugin
    /\ Cardinality(DOMAIN plugins) >= 2
    /\ heap[last.plugin].adapters # EmptyMap
    /\ \E i \in DOMAIN heap : i # last.plugin /\ heap[i].adapters = EmptyMap

\* C4: an envelope that is no register request and whose plugin id is not in the
\* registry is dropped: nothing is raised, no Plugin's onMsg is called, nothing is
\* sent, and the registry and every Plugin (channel handle, launch descriptor,
\* proxies) stay as they are.
C4_UnknownIdDropped ==
    \A p \in IdValues \ DOMAIN plugins :
        \A msg \in EnvelopesOf(p), ws \in Conns :
            \A r \in {onMsg(World, msg, ws)} :
                /\ ~r.raised
                /\ NoEffect(r, World)

\* an envelope for an unknown id has just been dropped while a Plugin holding a
\* bound channel, a launch descriptor and a proxy was registered
C4_Witness ==
    /\ last.op = "onMsg"
    /\ Truthy(last.id)
    /\ last.plugin = NoPlugin
    /\ ~MapHas(plugins, last.id)
    /\ \E i \in DOMAIN heap :
          /\ heap[i].ws # UNDEF
          /\ heap[i].exec # UNDEF
          /\ heap[i].adapters # EmptyMap

\* C5: an envelope that is no register request and lacks a plugin id (pluginId
\* absent or empty, or no data record) is dropped: nothing is raised out of onMsg,
\* no Plugin's onMsg is called and the registry stays as it is.
C5_MalformedDropped ==
    \A msg \in OtherEnvelopes, ws \in Conns :
        (IF msg.data = NoData THEN TRUE ELSE ~Truthy(msg.data.pluginId)) =>
            \A r \in {onMsg(World, msg, ws)} :
                /\ ~r.raised
                /\ r.delivered = <<>>
                /\ r.plugins = plugins

----------------------------------------------------------------------------
(* The handshake *)

\* every preference lookup eventually settles
SpecOverlapFair == SpecOverlap /\ \A t \in 1..MaxPending : WF_vars(LookupOf(t))

\* what ws.send is given when the lookups of the k-th handshake of world w settle
\* with the results a (language) and b (temperature); a rejected language lookup
\* leaves the temperature lookup out
Outcome(w, k, a, b) ==
    IF w.pending[k].stage = "temperature"
    THEN TemperatureSettles(w, k, b).sent
    ELSE IF a = Rejected
    THEN LanguageSettles(w, k, a).sent
    ELSE TemperatureSettles(After(LanguageSettles(w, k, a)), k, b).sent

\* a lookup failed or returned no value
Failed == {Rejected} \cup EmptyResults

\* C6: under the assumption that every preference lookup eventually settles, each
\* register request handled by onMsg (each handshake in flight) is eventually
\* followed by the sending of its register response, however the lookups settle.
C6_HandshakeCompletes ==
    \A t \in 1..MaxPending : InFlight(t) ~> (last.op = "respond" /\ last.tag = t)

\* the response of the second of two overlapping handshakes has just been sent
C6_Witness ==
    /\ last.op = "respond"
    /\ last.tag = 2
    /\ InFlight(1)

\* C7: when the preference lookups fail or return no value, the register response
\* that is sent carries language "en-US" and units.temperature "degree celsius".
C7_DefaultFallback ==
    \A k \in 1..Len(pending) :
        pending[k].stage = "language" =>
            \A a \in Failed, b \in Failed :
                \A out \in {Outcome(World, k, a, b)} :
                    /\ Len(out) = 1
                    /\ JSONGet(out[1].text, "data_preferences_language") = "en-US"
                    /\ JSONGet(out[1].text, "data_preferences_units_temperature")
                          = "degree celsius"

\* the language lookup of a handshake has returned no value and its temperature
\* lookup is outstanding
C7_Witness ==
    /\ last.op = "lookup"
    /\ \E k \in 1..Len(pending) :
          /\ pending[k].tag = last.tag
          /\ pending[k].stage = "temperature"
          /\ pending[k].language = DefaultLanguage

\* the language a response carries after the language lookup settled with a
ResolvedLanguage(h, a) ==
    IF h.stage = "temperature" THEN h.language
    ELSE IF a # Rejected /\ Truthy(a) THEN a ELSE DefaultLanguage

\* the temperature unit a response carries after the lookups settled with a and b
ResolvedTemperature(h, a, b) ==
    IF h.stage = "language" /\ a = Rejected THEN DefaultTemperature
    ELSE IF b # Rejected /\ Truthy(b) THEN b ELSE DefaultTemperature

\* the text is a register response for plugin id p with the given preferences
IsResponseFor(text, p, language, temperature) ==
    /\ JSONGet(text, "messageType") = PLUGIN_REGISTER_RESPONSE
    /\ JSONGet(text, "data_pluginId") = p
    /\ JSONGet(text, "data_gatewayVersion") = PkgVersion
    /\ \A d \in UserProfileDirs :
          JSONGet(text, "data_userProfile_" \o d) = "UserProfile." \o d
    /\ JSONGet(text, "data_preferences_language") = language
    /\ JSONGet(text, "data_preferences_units_temperature") = temperature

\* C8: every register response that is sent has message type REGISTER_RESPONSE and
\* carries the pluginId of the register request of its own handshake, the gateway
\* version, the seven profile directories and the resolved preferences, also while
\* handshakes for other ids are in flight; a register request adds a handshake
\* carrying its pluginId and leaves the handshakes in flight as they are.
C8_ResponseEchoesRequest ==
    /\ \A k \in 1..Len(pending), a \in LanguageResults, b \in TemperatureResults :
          \A out \in {Outcome(World, k, a, b)} :
              /\ Len(out) = 1
              /\ IsResponseFor(out[1].text, pending[k].pluginId,
                               ResolvedLanguage(pending[k], a),
                               ResolvedTemperature(pending[k], a, b))
    /\ \A p \in IdValues, ws \in Conns :
          \A r \in {onMsg(World, RegisterRequest(p), ws)} :
              /\ SubSeq(r.pending, 1, Len(pending)) = pending
              /\ Len(r.pending) = Len(pending) + 1
              /\ r.sent = <<>>
              /\ \A a \in LanguageResults, b \in TemperatureResults :
                    \A out \in {Outcome(After(r), Len(r.pending), a, b)} :
                        /\ Len(out) = 1
                        /\ JSONGet(out[1].text, "data_pluginId") = p

\* a response has just been sent while the handshake of another id is in flight
C8_Witness ==
    /\ last.op = "respond"
    /\ pending # <<>>
    /\ \A k \in 1..Len(pending) : pending[k].pluginId # last.id

\* C9: a register request for id p arriving on connection c leaves the Plugin
\* registered under p with its channel handle bound to c in the same dispatch,
\* with no lookup settled and nothing sent yet; a later register request for p on
\* connection c2 binds the handle of the same Plugin to c2.
C9_ChannelBoundAtDispatch ==
    /\ \A p \in IdValues, ws \in Conns :
          \A r \in {onMsg(World, RegisterRequest(p), ws)} :
              /\ MapHas(r.plugins, p)
              /\ r.heap[r.plugins[p]].ws = ws
              /\ r.sent = <<>>
              /\ r.pending[Len(r.pending)].stage = "language"
              /\ \A ws2 \in Conns :
                    \A r2 \in {onMsg(After(r), RegisterRequest(p), ws2)} :
                        /\ r2.plugins[p] = r.plugins[p]
                        /\ r2.heap[r2.plugins[p]].ws = ws2
    /\ last.op = "onMsg.register" =>
          /\ MapGet(plugins, last.id) = last.plugin
          /\ heap[last.plugin].ws = pending[Len(pending)].ws

\* a second register request for the same id has just arrived on another
\* connection while the first handshake is in flight, and the Plugin's handle is
\* bound to the second connection
C9_Witness ==
    /\ last.op = "onMsg.register"
    /\ Len(pending) = 2
    /\ pending[1].pluginId = pending[2].pluginId
    /\ pending[1].ws # pending[2].ws
    /\ heap[plugins[last.id]].ws = pending[2].ws

\* C10: unregisterPlugin(p) removes p from the registry and leaves every other
\* entry and its Plugin as they are; after it, and as long as p is not in the
\* registry, every envelope for p that is no register request is dropped without
\* reaching any Plugin's onMsg.
C10_UnregisterCleansUp ==
    /\ \A p \in IdValues :
          \A u \in {unregisterPlugin(World, p)} :
              /\ DOMAIN u.plugins = DOMAIN plugins \ {p}
              /\ \A q \in DOMAIN u.plugins :
                    /\ u.plugins[q] = plugins[q]
                    /\ u.heap[u.plugins[q]] = heap[plugins[q]]
              /\ \A msg \in EnvelopesOf(p), ws \in Conns :
                    \A r \in {onMsg(After(u), msg, ws)} :
                        r.delivered = <<>> /\ NoEffect(r, After(u))
    /\ \A p \in IdValues \ DOMAIN plugins :
          \A msg \in EnvelopesOf(p), ws \in Conns :
              onMsg(World, msg, ws).delivered = <<>>
    /\ last.op = "unregisterPlugin" => ~MapHas(plugins, last.id)

\* unregisterPlugin has just removed a Plugin while another Plugin stays registered
C10_Witness ==
    /\ last.op = "unregisterPlugin"
    /\ last.plugin # NoPlugin
    /\ ~MapHas(plugins, last.id)
    /\ plugins # EmptyMap

----------------------------------------------------------------------------
(* Registration and routing *)

\* C11: registration precedes routing: an envelope that is no register request and
\* carries the plugin id p is passed to the onMsg of p's Plugin only when a register
\* request for p has bound that Plugin's channel handle, whatever loadPlugin calls,
\* register requests and other envelopes came before.
C11_RegistrationPrecedesRouting ==
    \A p \in DOMAIN plugins :
        \A msg \in EnvelopesOf(p), ws \in Conns :
            \A r \in {onMsg(World, msg, ws)} :
                r.delivered # <<>> => heap[plugins[p]].ws # UNDEF

\* the announcement of capability x of the given kind by plugin p
Added(messageType, p, x) == [messageType |-> messageType, data |-> Data(p, x, UNDEF)]

\* C12: once plugin p is registered, one ADAPTER_ADDED envelope from p for adapter
\* id x makes the server pass an Adapter Proxy with id x and owner p to the Add-on
\* Manager exactly once, through addAdapter; NOTIFIER_ADDED does so through
\* addNotifier and API_HANDLER_ADDED through addAPIHandler.
C12_CapabilityAnnounced ==
    \A p \in DOMAIN plugins, x \in AdapterIds, ws \in Conns :
        /\ \A r \in {onMsg(World, Added(ADAPTER_ADDED, p, x), ws)} :
              /\ r.mgr = <<[fn |-> "addAdapter", proxy |-> Proxy("adapter", x, p)]>>
              /\ r.delivered = <<plugins[p]>>
              /\ ~r.raised
        /\ \A r \in {onMsg(World, Added(NOTIFIER_ADDED, p, x), ws)} :
              /\ r.mgr = <<[fn |-> "addNotifier", proxy |-> Proxy("notifier", x, p)]>>
              /\ r.delivered = <<plugins[p]>>
              /\ ~r.raised
        /\ \A r \in {onMsg(World, Added(API_HANDLER_ADDED, p, x), ws)} :
              /\ r.mgr = <<[fn |-> "addAPIHandler", proxy |-> Proxy("apiHandler", x, p)]>>
              /\ r.delivered = <<plugins[p]>>
              /\ ~r.raised

\* a registered plugin has just announced a capability and now owns an adapter, a
\* notifier and an API handler
C12_Witness ==
    /\ last.op = "onMsg"
    /\ last.plugin \in DOMAIN heap
    /\ heap[last.plugin].ws # UNDEF
    /\ heap[last.plugin].adapters # EmptyMap
    /\ heap[last.plugin].notifiers # {}
    /\ heap[last.plugin].apiHandlers # {}

\* the PLUGIN_UNLOADED envelope of plugin p
Unloaded(p) == [messageType |-> PLUGIN_UNLOADED, data |-> Data(p, UNDEF, UNDEF)]

\* the proxies the Plugin object self owns
OwnedBy(self) ==
    {Proxy("adapter", x, self.pluginId) : x \in DOMAIN self.adapters}
    \cup {Proxy("notifier", x, self.pluginId) : x \in self.notifiers}
    \cup {Proxy("apiHandler", x, self.pluginId) : x \in self.apiHandlers}

\* C13: when a registered plugin p sends PLUGIN_UNLOADED, every proxy p owns is
\* released, each once, before unregisterPlugin(p) is called; after the envelope
\* the registry does not contain p, and every further PROPERTY_CHANGED envelope for
\* p is dropped.
C13_UnloadOrdering ==
    \A p \in DOMAIN plugins, ws \in Conns :
        \A r \in {onMsg(World, Unloaded(p), ws)} :
            \A n \in {Cardinality(OwnedBy(heap[plugins[p]]))} :
                /\ Len(r.calls) = n + 1
                /\ \A k \in 1..n : r.calls[k].fn = "release"
                /\ {r.calls[k].proxy : k \in 1..n} = OwnedBy(heap[plugins[p]])
                /\ r.calls[n + 1] = UnregisterCall(p)
                /\ ~MapHas(r.plugins, p)
                /\ ~r.raised
                /\ \A msg \in EnvelopesOf(p), ws2 \in Conns :
                      msg.messageType = PROPERTY_CHANGED =>
                          \A r2 \in {onMsg(After(r), msg, ws2)} :
                              ~r2.raised /\ NoEffect(r2, After(r))

\* a plugin has just unloaded, its Plugin is gone from the registry, and another
\* plugin that owns proxies stays registered
C13_Witness ==
    /\ last.op = "onMsg"
    /\ last.plugin # NoPlugin
    /\ last.plugin \notin DOMAIN heap
    /\ ~MapHas(plugins, last.id)
    /\ \E q \in DOMAIN plugins : OwnedBy(heap[plugins[q]]) # {}

----------------------------------------------------------------------------
(* Handshakes, unregistrations and closing connections *)

\* the lookup of the k-th handshake settling with result ends the chain with one
\* call of ws.send on the connection of its request
SendsOnce(r, k) ==
    /\ Len(r.sent) = 1
    /\ r.sent[1].ws = pending[k].ws
    /\ r.pending = Without(pending, k)

\* C14: a handshake in flight is neither cancelled nor retried: each register
\* request's chain ends with exactly one call of ws.send on the connection of the
\* request, also when its plugin id has been unregistered or that connection has
\* closed before the lookups settled; a handshake leaves only by that one send, and
\* after the send the chain is gone (nothing is sent again).
C14_NoCancelNoRetry ==
    /\ [](\A k \in 1..Len(pending) :
            /\ pending[k].stage = "temperature" =>
                  \A b \in TemperatureResults :
                      SendsOnce(TemperatureSettles(World, k, b), k)
            /\ pending[k].stage = "language" =>
                  \A a \in LanguageResults :
                      \A r \in {LanguageSettles(World, k, a)} :
                          IF a = Rejected THEN SendsOnce(r, k)
                          ELSE /\ r.sent = <<>>
                               /\ Len(r.pending) = Len(pending)
                               /\ r.pending[k].tag = pending[k].tag
                               /\ r.pending[k].ws = pending[k].ws
                               /\ r.pending[k].stage = "temperature")
    /\ [][/\ \A t \in 1..MaxPending :
                InFlight(t) /\ ~InFlight(t)' => last'.op = "respond" /\ last'.tag = t
          /\ last'.op = "respond" => Len(pending') = Len(pending) - 1
          /\ last'.op \in {"unregisterPlugin", "close"} => pending' = pending]_vars

\* a response has just been sent although every connection had closed and the
\* plugin of the request had been unregistered
C14_Witness ==
    /\ last.op = "respond"
    /\ closed = Conns
    /\ ~MapHas(plugins, last.id)

\* C15: responses of different plugins are not ordered: whenever the register
\* request of plugin A was handled before that of plugin B and both handshakes are
\* in flight, B's last lookup settling sends B's response at once and leaves A's
\* handshake in flight, so that B's response is sent before A's.
C15_ResponsesOvertake ==
    \A k1 \in 1..Len(pending), k2 \in 1..Len(pending) :
        (k1 < k2 /\ pending[k1].pluginId # pending[k2].pluginId) =>
            \A r \in (IF pending[k2].stage = "temperature"
                      THEN {TemperatureSettles(World, k2, b) : b \in TemperatureResults}
                      ELSE {LanguageSettles(World, k2, Rejected)}) :
                /\ Len(r.sent) = 1
                /\ r.sent[1].ws = pending[k2].ws
                /\ JSONGet(r.sent[1].text, "data_pluginId") = pending[k2].pluginId
                /\ Len(r.pending) = Len(pending) - 1
                /\ r.pending[k1] = pending[k1]

\* the response to the later of two register requests has just been sent while
\* the earlier request, of another plugin, still waits for its lookups
C15_Witness ==
    /\ last.op = "respond"
    /\ last.pos = 2
    /\ Len(pending) = 1
    /\ pending[1].pluginId # last.id

\* C16: a handshake in flight does not hold up the dispatch: while the lookups of
\* plugin p's register request are outstanding, an envelope that is no register
\* request for another registered plugin q is passed to q's Plugin, and a register
\* request for q puts q in the registry and starts q's handshake; neither waits for
\* p's response, and p's handshake stays as it is.
C16_PendingDoesNotBlock ==
    \A k \in 1..Len(pending), q \in PluginIds, ws \in Conns :
        q # pending[k].pluginId =>
            /\ MapHas(plugins, q) =>
                  \A msg \in EnvelopesOf(q) :
                      \A r \in {onMsg(World, msg, ws)} :
                          /\ r.delivered = <<plugins[q]>>
                          /\ r.pending = pending
                          /\ r.sent = <<>>
            /\ \A r \in {onMsg(World, RegisterRequest(q), ws)} :
                  /\ MapHas(r.plugins, q)
                  /\ r.heap[r.plugins[q]].ws = ws
                  /\ SubSeq(r.pending, 1, Len(pending)) = pending
                  /\ Len(r.pending) = Len(pending) + 1
                  /\ r.pending[Len(r.pending)].pluginId = q
                  /\ r.sent = <<>>
                  /\ ~r.raised

\* an envelope has just been passed to the Plugin of q while the lookups of
\* another plugin's handshake are outstanding
C16_Witness ==
    /\ last.op = "onMsg"
    /\ last.plugin \in DOMAIN heap
    /\ heap[last.plugin].adapters # EmptyMap
    /\ pending # <<>>
    /\ \A k \in 1..Len(pending) : pending[k].pluginId # last.id

----------------------------------------------------------------------------
(* The life of a registry entry *)

\* the operation that led to r left the entry of p in the registry, with its Plugin
Kept(r, p) == MapHas(r.plugins, p) /\ r.plugins[p] = plugins[p]

\* unregisterPlugin(p) was called in the operation that led to r
Unregistered(r, p) == \E k \in 1..Len(r.calls) : r.calls[k] = UnregisterCall(p)

\* C17: the registry entry of p stays, with the same Plugin, until
\* unregisterPlugin(p) is called: the settling of lookups (handshake completion or
\* failure), dropped envelopes, envelopes and register requests of any plugin,
\* loadPlugin, registerPlugin and unregisterPlugin(q) for q # p keep it; an envelope
\* removes it only by p's own unload, which calls unregisterPlugin(p).
C17_EntryStaysUntilUnregistered ==
    /\ [](\A p \in DOMAIN plugins :
            /\ \A k \in 1..Len(pending) :
                  /\ pending[k].stage = "language" =>
                        \A a \in LanguageResults :
                            Kept(LanguageSettles(World, k, a), p)
                  /\ pending[k].stage = "temperature" =>
                        \A b \in TemperatureResults :
                            Kept(TemperatureSettles(World, k, b), p)
            /\ \A msg \in Envelopes, ws \in Conns :
                  \A r \in {onMsg(World, msg, ws)} :
                      Kept(r, p) \/ (msg = Unloaded(p) /\ Unregistered(r, p))
            /\ \A q \in IdValues \ {p} : Kept(unregisterPlugin(World, q), p)
            /\ \A q \in IdValues : Kept(registerPlugin(World, q), p)
            /\ \A m \in Manifests, path \in Paths, ok \in BOOLEAN :
                  Kept(loadPlugin(World, path, m, ok), p))
    /\ [][\A p \in DOMAIN plugins :
              (IF p \in DOMAIN plugins' THEN plugins'[p] # plugins[p] ELSE TRUE) =>
                  /\ last'.id = p
                  /\ last'.op \in {"unregisterPlugin", "onMsg"}]_vars

\* unregisterPlugin(q) has just removed q while a bound Plugin with a launch
\* descriptor stays registered under another id
C17_Witness ==
    /\ last.op = "unregisterPlugin"
    /\ last.plugin # NoPlugin
    /\ \E p \in DOMAIN plugins :
          /\ p # last.id
          /\ heap[plugins[p]].ws # UNDEF
          /\ heap[plugins[p]].exec # UNDEF

----------------------------------------------------------------------------
(* Failures *)

\* the handshake tagged t, of a register request for plugin id q, is in flight
InFlightFor(t, q) == \E k \in 1..Len(pending) : pending[k].tag = t /\ pending[k].pluginId = q

\* C18: no failure disables the server: in every state reached through dropped
\* envelopes, failed lookups, failed launches and unregistrations, a register
\* request for any id q is accepted (nothing raised), q is in the registry right
\* after it, bound to the request's connection, with its handshake started; and,
\* every lookup eventually settling, the register response for q is eventually
\* sent.
C18_ServerStaysAvailable ==
    /\ [](\A q \in IdValues, ws \in Conns :
            \A r \in {onMsg(World, RegisterRequest(q), ws)} :
                /\ ~r.raised
                /\ MapHas(r.plugins, q)
                /\ r.heap[r.plugins[q]].ws = ws
                /\ Len(r.pending) = Len(pending) + 1
                /\ r.pending[Len(r.pending)].pluginId = q
                /\ r.pending[Len(r.pending)].ws = ws)
    /\ [][last'.op = "onMsg.register" =>
              /\ MapHas(plugins', last'.id)
              /\ pending' # <<>>
              /\ pending'[Len(pending')].pluginId = last'.id]_vars
    /\ \A t \in 1..MaxPending, q \in IdValues :
          InFlightFor(t, q) ~> (last.op = "respond" /\ last.tag = t /\ last.id = q)

\* the response to a register request has just been sent, its plugin registered,
\* after the launch of another plugin had failed
C18_Witness ==
    /\ last.op = "respond"
    /\ MapHas(plugins, last.id)
    /\ \E i \in DOMAIN heap :
          /\ heap[i].process = "failed"
          /\ heap[i].pluginId # last.id

----------------------------------------------------------------------------
(* loadPlugin *)

\* the manifests and paths loadPlugin is tried with, among them a relaunch with
\* another executable from another path
AnyManifest == {[name |-> p, moziot |-> [exec |-> e]] : p \in PluginIds, e \in {"exec", "exec2"}}
AnyPath == Paths \cup {"path2"}

\* C19: loadPlugin(path, manifest) constructs the Plugin for manifest.name if the
\* registry has none and reuses the registered one otherwise, sets its exec to
\* manifest.moziot.exec and its execPath to path, then calls its start() exactly
\* once, with that configuration in place; a Plugin that existed keeps its channel
\* handle and its proxies, and every other entry stays as it is.
C19_LoadPlugin ==
    \A m \in AnyManifest, path \in AnyPath, ok \in BOOLEAN :
        \A r \in {loadPlugin(World, path, m, ok)} :
            \A i \in {r.plugin} :
                /\ ~r.raised
                /\ DOMAIN r.plugins = DOMAIN plugins \cup {m.name}
                /\ r.plugins[m.name] = i
                /\ IF MapHas(plugins, m.name)
                   THEN /\ i = plugins[m.name]
                        /\ DOMAIN r.heap = DOMAIN heap
                        /\ r.ninst = ninst
                        /\ r.heap[i].ws = heap[i].ws
                        /\ r.heap[i].adapters = heap[i].adapters
                        /\ r.heap[i].notifiers = heap[i].notifiers
                        /\ r.heap[i].apiHandlers = heap[i].apiHandlers
                   ELSE /\ i \notin DOMAIN heap
                        /\ DOMAIN r.heap = DOMAIN heap \cup {i}
                        /\ r.heap[i].ws = UNDEF
                        /\ r.heap[i].adapters = EmptyMap
                /\ r.heap[i].pluginId = m.name
                /\ r.heap[i].exec = m.moziot.exec
                /\ r.heap[i].execPath = path
                /\ r.starts = <<[plugin |-> i, exec |-> m.moziot.exec, execPath |-> path]>>
                /\ \A q \in DOMAIN plugins \ {m.name} :
                      r.plugins[q] = plugins[q] /\ r.heap[r.plugins[q]] = heap[plugins[q]]
                /\ r.pending = pending
                /\ r.sent = <<>>

\* loadPlugin has just been called for a plugin that had registered itself and
\* announced an adapter: the Plugin is bound, owns the proxy and has its launch
\* configuration
C19_Witness ==
    /\ last.op = "loadPlugin"
    /\ MapGet(plugins, last.id) = last.plugin
    /\ heap[last.plugin].ws # UNDEF
    /\ heap[last.plugin].adapters # EmptyMap
    /\ heap[last.plugin].exec # UNDEF
    /\ heap[last.plugin].execPath # UNDEF

\* C20: when the launch fails in loadPlugin(path, manifest), the Plugin of
\* manifest.name stays in the registry, not running, with its launch configuration
\* set, every other entry stays as it is, and start() was called once; no other
\* operation of the server calls start(), and a Plugin whose launch failed stays
\* so until loadPlugin is called for it again.
C20_LaunchFailure ==
    /\ [](/\ \A m \in AnyManifest, path \in AnyPath :
                \A r \in {loadPlugin(World, path, m, FALSE)} :
                    /\ MapHas(r.plugins, m.name)
                    /\ r.plugins[m.name] = r.plugin
                    /\ r.heap[r.plugin].process = "failed"
                    /\ r.heap[r.plugin].exec = m.moziot.exec
                    /\ r.heap[r.plugin].execPath = path
                    /\ Len(r.starts) = 1
                    /\ \A q \in DOMAIN plugins :
                          /\ MapHas(r.plugins, q)
                          /\ r.plugins[q] = plugins[q]
                          /\ q # m.name => r.heap[r.plugins[q]] = heap[plugins[q]]
          /\ \A msg \in Envelopes, ws \in Conns : onMsg(World, msg, ws).starts = <<>>
          /\ \A k \in 1..Len(pending) :
                /\ pending[k].stage = "language" =>
                      \A a \in LanguageResults : LanguageSettles(World, k, a).starts = <<>>
                /\ pending[k].stage = "temperature" =>
                      \A b \in TemperatureResults :
                          TemperatureSettles(World, k, b).starts = <<>>
          /\ \A q \in IdValues :
                /\ registerPlugin(World, q).starts = <<>>
                /\ unregisterPlugin(World, q).starts = <<>>)
    /\ [][\A i \in DOMAIN heap :
              (heap[i].process = "failed" /\ i \in DOMAIN heap') =>
                  \/ heap'[i].process = "failed"
                  \/ last'.op = "loadPlugin" /\ last'.plugin = i]_vars

\* the launch of a plugin has just failed in loadPlugin; its Plugin is registered
\* with its launch configuration, and another plugin is running
C20_Witness ==
    /\ last.op = "loadPlugin"
    /\ MapGet(plugins, last.id) = last.plugin
    /\ heap[last.plugin].process = "failed"
    /\ heap[last.plugin].exec # UNDEF
    /\ \E i \in DOMAIN heap : i # last.plugin /\ heap[i].process = "running"

----------------------------------------------------------------------------
(* The pass-through operations *)

\* C21: unregisterPlugin(p) does nothing but remove p from the registry: it makes
\* no call on the Add-on Manager, releases no proxy, sends nothing on any
\* connection, starts nothing, leaves the handshakes in flight and every other
\* entry with its Plugin as they are; for an id that is not registered it changes
\* nothing at all.
C21_UnregisterOnlyRemoves ==
    \A p \in IdValues :
        \A u \in {unregisterPlugin(World, p)} :
            /\ u.mgr = <<>>
            /\ u.released = <<>>
            /\ u.sent = <<>>
            /\ u.delivered = <<>>
            /\ u.starts = <<>>
            /\ ~u.raised
            /\ u.pending = pending
            /\ u.ninst = ninst
            /\ DOMAIN u.plugins = DOMAIN plugins \ {p}
            /\ \A q \in DOMAIN u.plugins :
                  u.plugins[q] = plugins[q] /\ u.heap[u.plugins[q]] = heap[plugins[q]]
            /\ ~MapHas(plugins, p) => (u.plugins = plugins /\ u.heap = heap)

\* unregisterPlugin has just removed a plugin while another one, bound and owning
\* a proxy, stays registered
C21_Witness ==
    /\ last.op = "unregisterPlugin"
    /\ last.plugin # NoPlugin
    /\ \E q \in DOMAIN plugins :
          /\ heap[plugins[q]].ws # UNDEF
          /\ heap[plugins[q]].adapters # EmptyMap

\* the proxies the three operations are tried with
AnyProxy ==
    {Proxy(kind, x, p) : kind \in {"adapter", "notifier", "apiHandler"},
                         x \in AdapterIds, p \in IdValues}

\* the operation made the one call fn(proxy) on the Add-on Manager and nothing else
PassedThrough(r, fn, proxy) ==
    /\ r.mgr = <<[fn |-> fn, proxy |-> proxy]>>
    /\ r.plugins = plugins
    /\ r.heap = heap
    /\ r.ninst = ninst
    /\ r.pending = pending
    /\ r.sent = <<>>
    /\ r.delivered = <<>>
    /\ r.released = <<>>
    /\ r.calls = <<>>
    /\ r.starts = <<>>
    /\ ~r.raised

\* C22: addAdapter(proxy), addNotifier(proxy) and addAPIHandler(proxy) each make
\* exactly one call on the Add-on Manager, of the operation of the same name and
\* with the same proxy, and change neither the registry nor any Plugin.
C22_PassThrough ==
    \A proxy \in AnyProxy :
        /\ PassedThrough(addAdapter(World, proxy), "addAdapter", proxy)
        /\ PassedThrough(addNotifier(World, proxy), "addNotifier", proxy)
        /\ PassedThrough(addAPIHandler(World, proxy), "addAPIHandler", proxy)

\* a plugin has just announced an API handler, passed on through addAPIHandler,
\* while another registered plugin owns an adapter and a notifier
C22_Witness ==
    /\ last.op = "onMsg"
    /\ last.type = API_HANDLER_ADDED
    /\ last.plugin \in DOMAIN heap
    /\ heap[last.plugin].apiHandlers # {}
    /\ \E i \in DOMAIN heap :
          /\ i # last.plugin
          /\ heap[i].adapters # EmptyMap
          /\ heap[i].notifiers # {}

\* C23: shutdown() closes the shared transport and does not touch the registry,
\* the Plugins or the handshakes in flight; a second shutdown() raises nothing and
\* leaves the server in the state the first one left it in.
C23_ShutdownIdempotent ==
    /\ \A s1 \in {shutdown(World)} :
          \A s2 \in {shutdown(After(s1))} :
              /\ ~s1.ipcOpen
              /\ ~s1.raised /\ ~s2.raised
              /\ s1.plugins = plugins /\ s1.heap = heap /\ s1.ninst = ninst
              /\ s1.pending = pending
              /\ s1.sent = <<>> /\ s1.mgr = <<>> /\ s1.calls = <<>>
              /\ After(s2) = After(s1)
    /\ last.op \in {"shutdown", "shutdown.again"} => ~ipcOpen

\* shutdown() has just been called on a server whose transport was closed already,
\* with a plugin registered and a handshake in flight
C23_Witness ==
    /\ last.op = "shutdown.again"
    /\ ~ipcOpen
    /\ plugins # EmptyMap
    /\ pending # <<>>

----------------------------------------------------------------------------
(* Capability Proxies *)

\* capability ids, among them one no plugin ever announces
AnyCapabilityId == AdapterIds \cup {"x2"}

\* the PROPERTY_CHANGED envelope of plugin p for capability c with value v
PropertyChanged(p, c, v) == [messageType |-> PROPERTY_CHANGED, data |-> Data(p, c, v)]

\* C24: a PROPERTY_CHANGED envelope from a registered plugin p that names a
\* capability id for which p owns no proxy is discarded by p's Plugin: no proxy of
\* p or of another plugin changes, none is created, the registry stays as it is
\* and nothing is raised.
C24_UnknownCapabilityDiscarded ==
    \A p \in DOMAIN plugins, c \in AnyCapabilityId, v \in PropValues, ws \in Conns :
        (Truthy(p) /\ ~MapHas(heap[plugins[p]].adapters, c)) =>
            \A r \in {onMsg(World, PropertyChanged(p, c, v), ws)} :
                /\ r.delivered = <<plugins[p]>>
                /\ ~r.raised
                /\ r.plugins = plugins
                /\ r.heap = heap
                /\ r.ninst = ninst
                /\ r.mgr = <<>>
                /\ r.released = <<>>
                /\ r.calls = <<>>
                /\ r.sent = <<>>

\* a PROPERTY_CHANGED envelope has just been passed to a Plugin that owns no
\* proxy, while another plugin owns one whose mirror holds no value yet
C24_Witness ==
    /\ last.op = "onMsg"
    /\ last.type = PROPERTY_CHANGED
    /\ last.plugin \in DOMAIN heap
    /\ heap[last.plugin].adapters = EmptyMap
    /\ \E i \in DOMAIN heap :
          \E c \in DOMAIN heap[i].adapters : heap[i].adapters[c] = UNDEF

\* the envelopes the dispatch is tried with, among them some naming a capability
\* id no plugin announced
AnyEnvelope ==
    Envelopes \cup
    {[messageType |-> t, data |-> Data(p, "x2", v)] :
        t \in {ADAPTER_ADDED, PROPERTY_CHANGED}, p \in IdValues, v \in PropValues \cup {UNDEF}}

\* the operation that led to r changed the mirror of proxy c of Plugin i
MirrorChanged(r, i, c) ==
    IF i \in DOMAIN r.heap
    THEN IF c \in DOMAIN r.heap[i].adapters
         THEN r.heap[i].adapters[c] # heap[i].adapters[c]
         ELSE FALSE
    ELSE FALSE

\* C25: the mirror of the proxy with capability id c that plugin p owns is changed
\* only by the dispatch of an envelope that carries pluginId = p and capability id
\* c: no envelope of another plugin, whatever capability id it names, and no other
\* operation of the server changes it.
C25_ProxyIsolation ==
    /\ [](\A i \in DOMAIN heap :
            \A c \in DOMAIN heap[i].adapters :
                /\ \A msg \in AnyEnvelope, ws \in Conns :
                      MirrorChanged(onMsg(World, msg, ws), i, c) =>
                          (IF msg.data = NoData THEN FALSE
                           ELSE /\ msg.data.pluginId = heap[i].pluginId
                                /\ msg.data.adapterId = c)
                /\ \A k \in 1..Len(pending) :
                      /\ pending[k].stage = "language" =>
                            \A a \in LanguageResults :
                                ~MirrorChanged(LanguageSettles(World, k, a), i, c)
                      /\ pending[k].stage = "temperature" =>
                            \A b \in TemperatureResults :
                                ~MirrorChanged(TemperatureSettles(World, k, b), i, c)
                /\ \A q \in IdValues :
                      /\ ~MirrorChanged(registerPlugin(World, q), i, c)
                      /\ ~MirrorChanged(unregisterPlugin(World, q), i, c)
                /\ \A m \in Manifests, path \in Paths, ok \in BOOLEAN :
                      ~MirrorChanged(loadPlugin(World, path, m, ok), i, c))
    /\ [][\A i \in DOMAIN heap :
              \A c \in DOMAIN heap[i].adapters :
                  (IF i \in DOMAIN heap'
                   THEN IF c \in DOMAIN heap'[i].adapters
                        THEN heap'[i].adapters[c] # heap[i].adapters[c]
                        ELSE FALSE
                   ELSE FALSE) =>
                      /\ last'.op = "onMsg"
                      /\ last'.id = heap[i].pluginId
                      /\ last'.plugin = i]_vars

\* a PROPERTY_CHANGED envelope of one plugin has just set the mirror of its proxy,
\* while the proxy with the same capability id of another plugin holds no value
C25_Witness ==
    /\ last.op = "onMsg"
    /\ last.type = PROPERTY_CHANGED
    /\ last.plugin \in DOMAIN heap
    /\ \E c \in DOMAIN heap[last.plugin].adapters :
          /\ heap[last.plugin].adapters[c] \in PropValues
          /\ \E i \in DOMAIN heap :
                /\ i # last.plugin
                /\ c \in DOMAIN heap[i].adapters
                /\ heap[i].adapters[c] = UNDEF

\* the connection bound to the registered plugin p has closed
ChannelLost(p) == IF MapHas(plugins, p) THEN heap[plugins[p]].ws \in closed ELSE FALSE

\* C26: when the connection bound to a registered plugin p closes and p does not
\* register again on an open connection before the grace period runs out, the
\* proxies p owns are released, unregisterPlugin(p) is called after that, and p's
\* entry is eventually gone from the registry.
C26_ClosureUnregisters ==
    /\ [](\A p \in DOMAIN plugins :
            \A r \in {PluginOnClose(World, plugins[p])} :
                \A n \in {Cardinality(OwnedBy(heap[plugins[p]]))} :
                    /\ Len(r.calls) = n + 1
                    /\ {r.calls[k].proxy : k \in 1..n} = OwnedBy(heap[plugins[p]])
                    /\ r.calls[n + 1] = UnregisterCall(p)
                    /\ ~MapHas(r.plugins, p))
    /\ [][last'.op = "graceExpired" => ~MapHas(plugins', last'.id)]_vars
    /\ \A p \in PluginIds : ChannelLost(p) ~> ~ChannelLost(p)

\* the grace period of a plugin has just run out and its entry is gone, while
\* another plugin is registered on a connection that is open
C26_Witness ==
    /\ last.op = "graceExpired"
    /\ ~MapHas(plugins, last.id)
    /\ last.plugin \notin DOMAIN heap
    /\ \E q \in DOMAIN plugins : heap[plugins[q]].ws \in Conns \ closed

----------------------------------------------------------------------------
(* Re-registration *)

\* C27: each register response goes out on the connection its own register
\* request arrived on: when plugin p registers on connection c1 and, with that
\* handshake in flight, registers again on connection c2, the Plugin's channel
\* handle is c2, the response of the first request is sent on c1 and that of the
\* second on c2, however the lookups settle.
C27_ResponseOnOwnConnection ==
    /\ [](\A p \in IdValues, c1 \in Conns, c2 \in Conns :
            c1 # c2 =>
                \A r1 \in {onMsg(World, RegisterRequest(p), c1)} :
                    \A r2 \in {onMsg(After(r1), RegisterRequest(p), c2)} :
                        \A n \in {Len(pending)} :
                            /\ r2.heap[r2.plugins[p]].ws = c2
                            /\ Len(r2.pending) = n + 2
                            /\ \A a \in LanguageResults, b \in TemperatureResults :
                                  /\ \A out \in {Outcome(After(r2), n + 1, a, b)} :
                                        Len(out) = 1 /\ out[1].ws = c1
                                  /\ \A out \in {Outcome(After(r2), n + 2, a, b)} :
                                        Len(out) = 1 /\ out[1].ws = c2)
    /\ [][last'.op = "respond" =>
              \E k \in 1..Len(pending) :
                  /\ pending[k].tag = last'.tag
                  /\ pending[k].ws = last'.ws
                  /\ pending[k].pluginId = last'.id]_vars

\* the response to the first of two register requests of one plugin has just been
\* sent on the first connection, while the second handshake waits and the
\* Plugin's channel handle is the second connection
C27_Witness ==
    /\ last.op = "respond"
    /\ last.pos = 1
    /\ Len(pending) = 1
    /\ pending[1].pluginId = last.id
    /\ pending[1].ws # last.ws
    /\ MapHas(plugins, last.id)
    /\ heap[plugins[last.id]].ws = pending[1].ws

\* the language and temperature unit carried by the only response in out
Preferences(out) ==
    [language    |-> JSONGet(out[1].text, "data_preferences_language"),
     temperature |-> JSONGet(out[1].text, "data_preferences_units_temperature")]

\* C28: preference resolution is sequential and per-field. A handshake starts with
\* the language lookup; when it returns a non-empty value nothing is sent yet and
\* the temperature lookup follows, and if that one fails the response carries the
\* looked-up language and "degree celsius"; when the language lookup fails the
\* response is sent at once with both defaults and the handshake is over, so no
\* temperature lookup is made; an empty value leaves its own field at the default
\* and the other field as looked up.
C28_SequentialPerField ==
    /\ \A p \in IdValues, ws \in Conns :
          \A r \in {onMsg(World, RegisterRequest(p), ws)} :
              \A h \in {r.pending[Len(r.pending)]} :
                  /\ h.stage = "language"
                  /\ h.language = "en-US"
                  /\ h.temperature = "degree celsius"
    /\ \A k \in 1..Len(pending) :
          /\ pending[k].stage = "language" =>
                /\ \A a \in LanguageSettings \cup EmptyResults :
                      \A r \in {LanguageSettles(World, k, a)} :
                          /\ r.sent = <<>>
                          /\ Len(r.pending) = Len(pending)
                          /\ r.pending[k].stage = "temperature"
                          /\ r.pending[k].language
                                = IF a \in LanguageSettings THEN a ELSE "en-US"
                          /\ \A b \in TemperatureResults :
                                \A out \in {TemperatureSettles(After(r), k, b).sent} :
                                    /\ Len(out) = 1
                                    /\ Preferences(out).language = r.pending[k].language
                                    /\ Preferences(out).temperature
                                          = IF b \in TemperatureSettings
                                            THEN b ELSE "degree celsius"
                /\ \A r \in {LanguageSettles(World, k, Rejected)} :
                      /\ Len(r.sent) = 1
                      /\ Preferences(r.sent).language = "en-US"
                      /\ Preferences(r.sent).temperature = "degree celsius"
                      /\ Len(r.pending) = Len(pending) - 1
                      /\ \A j \in 1..Len(r.pending) : r.pending[j].tag # pending[k].tag
          /\ pending[k].stage = "temperature" =>
                \A b \in TemperatureResults :
                    \A out \in {TemperatureSettles(World, k, b).sent} :
                        /\ Len(out) = 1
                        /\ Preferences(out).language = pending[k].language
                        /\ Preferences(out).temperature
                              = IF b \in TemperatureSettings THEN b ELSE "degree celsius"

\* the language lookup of a handshake has returned a language and its temperature
\* lookup is outstanding
C28_Witness ==
    /\ last.op = "lookup"
    /\ \E k \in 1..Len(pending) :
          /\ pending[k].tag = last.tag
          /\ pending[k].stage = "temperature"
          /\ pending[k].language \in LanguageSettings
          /\ pending[k].temperature = DefaultTemperature

\* the Plugin objects the registry holds
Registered(reg) == {reg[k] : k \in DOMAIN reg}

\* the Plugin r.plugin, made by an operation that started from the state u and
\* ended in r, is a new object registered under p whose fields are those of fresh
\* (nothing of the Plugin old is in it), and no envelope dispatched after r is
\* delivered to old
StartsFresh(r, u, p, old, fresh) ==
    /\ r.plugin # old
    /\ r.plugin \notin DOMAIN heap
    /\ r.plugins = MapSet(u.plugins, p, r.plugin)
    /\ r.heap[r.plugin] = fresh
    /\ \A msg \in AnyEnvelope, ws \in Conns :
          \A d \in {onMsg(After(r), msg, ws).delivered} :
              \A k \in 1..Len(d) : d[k] # old

\* C29: re-registration after removal starts fresh. After unregisterPlugin(p) of a
\* registered plugin, registerPlugin(p), a register request for p and loadPlugin
\* for p each construct a new Plugin distinct from the removed one, without its
\* channel handle, launch descriptor or proxies (the handle is the connection of
\* the new register request only, the descriptor that of the new manifest only);
\* envelopes are delivered to registered Plugins only, and a Plugin that has left
\* the registry never enters it again.
C29_ReregistrationStartsFresh ==
    /\ [](\A p \in DOMAIN plugins :
            \A old \in {plugins[p]} :
                \A u \in {After(unregisterPlugin(World, p))} :
                    /\ StartsFresh(registerPlugin(u, p), u, p, old, NewPlugin(p))
                    /\ \A ws \in Conns :
                          StartsFresh(onMsg(u, RegisterRequest(p), ws), u, p, old,
                                      [NewPlugin(p) EXCEPT !.ws = ws])
                    /\ \A path \in AnyPath, manifest \in AnyManifest, ok \in BOOLEAN :
                          manifest.name = p =>
                              StartsFresh(loadPlugin(u, path, manifest, ok), u, p, old,
                                          [NewPlugin(p) EXCEPT
                                              !.exec = manifest.moziot.exec,
                                              !.execPath = path,
                                              !.process = IF ok THEN "running"
                                                          ELSE "failed"]))
    /\ [](\A msg \in AnyEnvelope, ws \in Conns :
            \A d \in {onMsg(World, msg, ws).delivered} :
                \A k \in 1..Len(d) : d[k] \in Registered(plugins))
    /\ [][\A i \in 1..ninst :
              i \notin Registered(plugins) => i \notin Registered(plugins')]_vars

\* the plugin, removed after its first registration, has just been registered
\* again and its Plugin is the second one constructed
C29_Witness ==
    /\ last.op \in {"registerPlugin", "onMsg.register", "loadPlugin"}
    /\ last.id = "a"
    /\ last.plugin = 2
    /\ ninst = 2
    /\ MapGet(plugins, "a") = 2
    /\ DOMAIN heap = {2}

----------------------------------------------------------------------------
(* GatewayModel.addQueue *)

\* the k-th job has been called and what it returned has settled
JobSettled(k) == chain[k].status \in {"fulfilled", "rejected", "threw"}

\* the k-th job has been called
JobStarted(k) == chain[k].status \in {"running", "fulfilled", "rejected", "threw"}

\* C30: addQueue serialises jobs. A job submitted with addQueue is chained on the
\* promise of the job submitted before it and addQueue returns the new tail; a job
\* has started only if every job submitted before it has settled (so jobs start
\* in submission order and at most one is running); no job is ever skipped, a job
\* whose predecessors have all settled, failed or not, can start; and no promise
\* returned by addQueue is ever rejected.
C30_QueueSerialises ==
    /\ \A job \in Jobs :
          \A g \in {addQueue(Gateway, job)} :
              /\ g.queue = Len(chain) + 1
              /\ SubSeq(g.chain, 1, Len(chain)) = chain
              /\ g.chain[g.queue].on = queue
              /\ g.chain[g.queue].job = job
              /\ PromiseState(g, g.queue) = "pending"
    /\ \A k \in 1..Len(chain) :
          /\ JobStarted(k) => \A j \in 1..(k - 1) : JobSettled(j)
          /\ chain[k].status # "skipped"
          /\ (chain[k].status = "queued" /\ \A j \in 1..(k - 1) : JobSettled(j))
                => PromiseState(Gateway, chain[k].on) = "fulfilled"
          /\ PromiseState(Gateway, k) # "rejected"
    /\ Cardinality({k \in 1..Len(chain) : chain[k].status = "running"}) <= 1

\* a job has failed, a job submitted after it is running and a third one waits
C30_Witness ==
    /\ Len(chain) = 3
    /\ chain[1].status \in {"rejected", "threw"}
    /\ chain[2].status = "running"
    /\ chain[3].status = "queued"
    /\ last.op = "job"

----------------------------------------------------------------------------
(* GatewayModel: things and thing models *)

\* things and thingModels have the same keys
KeysEqual(w) == DOMAIN w.things = DOMAIN w.thingModels

\* the thing ids of a list of descriptions returned by the API
ThingIdsOf(things) == {decodeURIComponent(things[i]) : i \in 1..Len(things)}

\* C31: things and thingModels always have the same key set: in every reachable
\* state, and after setThing, handleRemove, the callback of a refreshThing job and
\* the callbacks of a refreshThings job applied to any reachable state with any
\* input.  The first callback of a refreshThings job leaves exactly the fetched
\* thing ids as keys and emits no event (no DELETE_THINGS for the things it
\* removes); the keys stay so while the job waits for the directories, and the job
\* that completes successfully emits REFRESH_THINGS once, leaving as keys exactly
\* the thing ids fetched in that job.
C31_ThingMapsAgree ==
    /\ [](/\ KeysEqual(gateway)
          /\ \A thingId \in ThingIds :
                /\ \A description \in Descriptions :
                      KeysEqual(setThing(GatewayWorld, thingId, description))
                /\ \A skipEvent \in BOOLEAN :
                      KeysEqual(handleRemove(GatewayWorld, thingId, skipEvent))
          /\ \A things \in ThingLists :
                \A acc \in {onThings(GatewayWorld, things)} :
                    /\ KeysEqual(acc.w)
                    /\ acc.w.events = <<>>
                    /\ ~acc.w.raised =>
                          /\ DOMAIN acc.w.things = ThingIdsOf(things)
                          /\ acc.fetchedIds = ThingIdsOf(things)
          /\ \A k \in DOMAIN gateway.run :
                gateway.run[k].stage = "getDirectories" =>
                    /\ DOMAIN gateway.things = gateway.run[k].fetchedIds
                    /\ \A directories \in DirectoryLists :
                          \A r \in {getDirectoriesSettles(GatewayWorld, k,
                                        [rejected |-> FALSE, value |-> directories])} :
                              /\ r.things = gateway.things
                              /\ r.thingModels = gateway.thingModels
                              /\ r.events = IF "%" \in {directories[i] :
                                                          i \in 1..Len(directories)}
                                            THEN <<>> ELSE <<REFRESH_THINGS>>)
    /\ [][last'.op = "refreshThings.done" =>
              /\ DOMAIN gateway'.things = gateway.run[last'.tag].fetchedIds
              /\ DOMAIN gateway'.thingModels = gateway.run[last'.tag].fetchedIds]_vars

\* the third job, a refreshThings job, has completed successfully and thing b is
\* the only thing
C31_Witness ==
    /\ last.op = "refreshThings.done"
    /\ last.tag = 3
    /\ DOMAIN gateway.things = {"b"}
    /\ DOMAIN gateway.thingModels = {"b"}

\* the job that removeThing or updateThing passes to addQueue for thingId
ModelJob(fn, thingId) == [fn |-> fn, id |-> thingId]

\* the call r of removeThing or updateThing (fn) for thingId, made in the current
\* state: rejected at once and nothing enqueued when thingId has no thing model,
\* its job enqueued otherwise; the thing model is not called either way
RejectsOrEnqueues(r, fn, thingId) ==
    /\ r.modelCalls = <<>>
    /\ r.things = gateway.things
    /\ r.thingModels = gateway.thingModels
    /\ IF thingId \in DOMAIN gateway.thingModels
       THEN /\ ~r.rejected
            /\ r.chain = Append(chain, [on |-> queue, job |-> ModelJob(fn, thingId),
                                        status |-> "queued", caught |-> TRUE])
            /\ r.result = r.queue
       ELSE /\ r.rejected
            /\ r.chain = chain
            /\ r.queue = queue

\* C32: removeThing(id) and updateThing(id, updates) return a rejected promise and
\* enqueue nothing when id is not in thingModels at the call; a removeThing or
\* updateThing job whose turn comes when id is no longer in thingModels throws
\* without calling the thing model, and calls the thing model's removeThing or
\* updateThing exactly once otherwise.
C32_RemovedThingIsNotCalled ==
    /\ \A thingId \in ThingIds :
          /\ RejectsOrEnqueues(removeThing(GatewayWorld, thingId), "removeThing", thingId)
          /\ RejectsOrEnqueues(updateThing(GatewayWorld, thingId), "updateThing", thingId)
    /\ \A k \in 1..Len(chain) :
          (/\ chain[k].status = "queued"
           /\ chain[k].job.fn \in {"removeThing", "updateThing"}
           /\ PromiseState(Gateway, chain[k].on) # "pending") =>
              \A r \in {CallJob(GatewayWorld, k)} :
                  IF chain[k].job.id \in DOMAIN gateway.thingModels
                  THEN /\ r.modelCalls = <<chain[k].job>>
                       /\ r.chain[k].status = "running"
                  ELSE /\ r.modelCalls = <<>>
                       /\ r.chain[k].status = "threw"
                       /\ r.run = gateway.run

\* the turn of a removeThing or updateThing job has come after its thing was
\* removed, and the job has thrown
C32_Witness ==
    /\ last.op = "job.throw"
    /\ chain[last.tag].job.fn \in {"removeThing", "updateThing"}
    /\ chain[last.tag].job.id \notin DOMAIN gateway.thingModels
    /\ chain[last.tag].status = "threw"

----------------------------------------------------------------------------
(* Directories *)

\* a load of the database is pending
LoadPending == store.getDirectoriesPromise.state = "pending"

\* C33: getDirectories is single-flight: while a database load is pending a call
\* of getDirectories returns the pending promise and makes no request to the
\* database; and when the map is not empty the call returns a promise resolved
\* with the map and makes no request.
C33_SingleFlight ==
    \A r \in {getDirectories(DirectoriesWorld)} :
        /\ LoadPending =>
              /\ r.returned = store.getDirectoriesPromise
              /\ r.requests = <<>>
        /\ DOMAIN store.directories # {} =>
              /\ r.returned = ResolvedWithMap
              /\ r.requests = <<>>

\* createDirectory for id has put its Directory in the map and has not completed
Creating(id) ==
    \E k \in 1..Len(store.flight) :
        /\ store.flight[k].op = "createDirectory"
        /\ store.flight[k].id = id
        /\ store.flight[k].stage \in {"moves", "set"}
        /\ store.flight[k].attached

\* C34: a directory that is in the map, no createDirectory for it being under
\* way, leaves the map only in the callback of removeDirectory for it or in
\* clearState; so in particular the callback of a database load, before which only
\* createDirectory can have filled the map, removes no directory whose
\* createDirectory has completed.
C34_CreatedStays ==
    [][\A id \in DOMAIN store.directories :
           (~Creating(id) /\ id \notin DOMAIN store'.directories) =>
               \/ last'.op = "clearState"
               \/ last'.op = "removeDirectory.done" /\ last'.id = id]_vars

\* no call of Directories is in flight and no load is pending
NothingInFlight == store.flight = <<>> /\ ~LoadPending

\* the layout indices of the map m are exactly 0..n-1
Permutation(m) ==
    /\ \A d \in DOMAIN m : m[d] \in 0..(Cardinality(DOMAIN m) - 1)
    /\ \A d, e \in DOMAIN m : d # e => m[d] # m[e]

\* C35: whenever no Directories operation is in flight, also after overlapping
\* calls of createDirectory, setDirectoryLayoutIndex and removeDirectory, the
\* layout indices of the n directories in the map are exactly 0..n-1.
C35_LayoutPermutation == NothingInFlight => Permutation(store.directories)

\* id is in no row of the database, in the map, or in the rows a pending load
\* will deliver
Unknown(id) ==
    /\ id \notin DOMAIN store.directories
    /\ id \notin DOMAIN store.db
    /\ id \notin DOMAIN store.getDirectoriesPromise.rows

----------------------------------------------------------------------------
(* ThingsScreen *)

\* the places of the things array that hold a thing rendered for thing id
RenderedFor(id) == {k \in 1..Len(screen.things) : screen.things[k].id = id}

\* C37: after refreshThings has been called and every lookup of a thing model has
\* been resolved, ThingsScreen.things holds one rendered thing for every entry of
\* the map passed to the latest call and nothing else, all of them rendered by that
\* call (any thing rendered before has been cleaned up), also when refreshThings
\* was called again before the lookups of an earlier call were resolved.
C37_RendersEachOnce ==
    (screen.calls > 0 /\ screen.lookups = {} /\ screen.rejected = {}) =>
        /\ \A id \in screen.passed : Cardinality(RenderedFor(id)) = 1
        /\ \A k \in 1..Len(screen.things) :
              /\ screen.things[k].id \in screen.passed
              /\ screen.things[k].call = screen.calls
              /\ screen.things[k] \notin screen.cleaned

----------------------------------------------------------------------------
(* RulePartBlock *)

\* the blocks of the rule area that hold role
Holders(role) ==
    {b \in 1..Len(area.blocks) : area.blocks[b].child /\ area.blocks[b].role = role}

\* the dragged block is over a drop area whose role another block holds
OverOccupied ==
    /\ area.dragging # 0
    /\ area.blocks[area.dragging].deviceBlock # ""
    /\ Holders(area.blocks[area.dragging].deviceBlock) \ {area.dragging} # {}

\* C38: whenever no drag is in progress at most one block of the rule area has
\* role 'trigger' and at most one has role 'effect', and each drop area is
\* inactive exactly when some block holds its role; and a block released over a
\* drop area whose role another block holds is back at its transform and role of
\* before the drag, or out of the rule area if it had no role.
C38_RoleExclusive ==
    /\ [](area.dragging = 0 =>
             /\ Cardinality(Holders("trigger")) <= 1
             /\ Cardinality(Holders("effect")) <= 1
             /\ area.triggerInactive <=> Holders("trigger") # {}
             /\ area.effectInactive <=> Holders("effect") # {})
    /\ [][(last'.op = "onUp" /\ OverOccupied) =>
             \A b \in {area.dragging} :
                 IF area.blocks[b].role = ""
                 THEN ~area'.blocks[b].child
                 ELSE /\ area'.blocks[b].child
                      /\ area'.blocks[b].role = area.blocks[b].role
                      /\ area'.blocks[b].transform = area.blocks[b].resetState]_vars

====
